---- MODULE Spec2Model ----
(***************************************************************************)
(* A model of the per-device conversation engine of aiolifx               *)
(* (src/aiolifx/aiolifx.py, class Device and the Light operations built   *)
(* on it): the sequence counter, the pending-request table                *)
(* (Device.message), the retry coroutine try_sending, the datagram and    *)
(* error handlers, and the registration flag.                             *)
(*                                                                         *)
(* The asyncio event loop is single threaded: a handler or one step of a  *)
(* coroutine (from one await to the next) runs to completion, so each is  *)
(* one action.  A task step made ready by create_task or by Event.set()   *)
(* is queued before any datagram the loop reads afterwards, so no         *)
(* datagram is delivered while such a step is pending (ReadyStep).        *)
(*                                                                         *)
(* Time is abstracted to what Device.unregister reads: whether the last    *)
(* inbound message is older than unregister_timeout (lastmsg = "old").     *)
(* The timeout of an attempt is an event that may happen whenever a task   *)
(* waits.                                                                  *)
(***************************************************************************)
EXTENDS Integers, Sequences, FiniteSets, TLC

(***************************************************************************)
(* Bounds of the model.                                                    *)
(***************************************************************************)
MaxIssued == 2         \* requests issued in one behaviour of Spec
MaxAttempts == 2       \* explicit max_attempts arguments are 1..MaxAttempts
MaxIssuedWrap == 130   \* requests issued in one behaviour of SpecWrap
MaxIssuedZones == 2    \* requests issued in one behaviour of SpecZones
MaxZoneReplies == 2    \* zone replies received in one behaviour of SpecZones
MaxDiscTicks == 2      \* runs of discover in one behaviour of SpecDisc
MaxEndpointSeq == 1    \* requests the host issues on one endpoint in SpecDisc
MaxTicks == 38         \* runs of discover in one behaviour of SpecTick
MaxForced == 1         \* times the host sets the countdown to 0 in SpecTick
MaxAdapters == 2       \* IPv4 addresses of the host in SpecScan
MaxRepeats == 2        \* explicit num_repeats arguments are 0..MaxRepeats
MaxIssuedCache == 2    \* requests issued in one behaviour of SpecCache
MaxDuplicates == 1   \* late replies to finished requests in SpecOnce
MaxCacheHits == 1      \* getter calls answered from the cache in SpecCache

(***************************************************************************)
(* Program constants.                                                      *)
(***************************************************************************)
SEQ_MOD == 128
DEFAULT_ATTEMPTS == 3
MAX_UNSIGNED_16_BIT_INTEGER_VALUE == 65535
HEADER_SIZE_BYTES == 36
MIN_KELVIN_VALUE == 1500
MAX_KELVIN_VALUE == 9000
MIN_BYTE_VALUE == 10495    \* 9000 Kelvin
MAX_BYTE_VALUE == 56575    \* 1500 Kelvin
LABEL_FIELD_LEN == 32
ID_GetService == 2
ID_StateService == 3
ID_GetHostFirmware == 14
ID_StateHostFirmware == 15
ID_GetWifiFirmware == 18
ID_StateWifiFirmware == 19
ID_GetLabel == 23
ID_SetLabel == 24
ID_StateLabel == 25
ID_GetVersion == 32
ID_StateVersion == 33
ID_Acknowledgement == 45
ID_LightState == 107
ID_LightSetPower == 117
ID_LightStatePower == 118
ID_MultiZoneGetColorZones == 502
ID_MultiZoneStateMultiZone == 506
ZONES_PER_REPLY == 8   \* colours carried by one MultiZoneStateMultiZone
ZoneCount == 16        \* zones of the multi-zone device of the model
UDP_BROADCAST_PORT == 56700
DISCOVERY_INTERVAL == 180
DISCOVERY_STEP == 5
OtherPort == 56701     \* a port a StateService may advertise instead
SERVICE_UDP == 1       \* StateService.service of the UDP service
SERVICE_OTHER == 5     \* some other service
STRAY_SEQ == 255       \* a seq_num no request can carry (requests are mod 128)

MSG_IDS ==
  [GetService |-> ID_GetService, StateService |-> ID_StateService,
   GetVersion |-> ID_GetVersion, StateVersion |-> ID_StateVersion,
   GetHostFirmware |-> ID_GetHostFirmware, StateHostFirmware |-> ID_StateHostFirmware,
   GetWifiFirmware |-> ID_GetWifiFirmware, StateWifiFirmware |-> ID_StateWifiFirmware,
   LightState |-> ID_LightState,
   GetLabel |-> ID_GetLabel, SetLabel |-> ID_SetLabel, StateLabel |-> ID_StateLabel,
   Acknowledgement |-> ID_Acknowledgement, LightSetPower |-> ID_LightSetPower,
   LightStatePower |-> ID_LightStatePower,
   MultiZoneGetColorZones |-> ID_MultiZoneGetColorZones,
   MultiZoneStateMultiZone |-> ID_MultiZoneStateMultiZone]

(***************************************************************************)
(* Optional values: None is the empty tuple, Some(x) the 1-tuple.          *)
(***************************************************************************)
None == << >>
Some(x) == <<x>>
IsNone(o) == o = << >>
The(o) == o[1]

\* the model follows two retry tasks at a time; a finished task frees its place
TaskIds == {1, 2}
NoTask == 0

(***************************************************************************)
(* Identity of the endpoint and of a foreign client.                       *)
(***************************************************************************)
\* source_id is random.randint(0, 2**32 - 1); only its equality with the
\* source_id of a reply is ever used, so two distinct values stand for all
OwnSourceId == 195948557       \* 0x0BADF00D
ForeignSourceId == 305419896   \* 0x12345678
MacAddr == "aa:bb:cc:dd:ee:ff"
BROADCAST_MAC == "00:00:00:00:00:00"

(***************************************************************************)
(* Labels are byte strings; on the wire a label is a 32-byte field.        *)
(***************************************************************************)
Kitchen == <<75, 105, 116, 99, 104, 101, 110>>
Den == <<68, 101, 110>>
Pad(bytes, n) == bytes \o [i \in 1..(n - Len(bytes)) |-> 0]
WireLabels == {Pad(Kitchen, LABEL_FIELD_LEN), Pad(Den, LABEL_FIELD_LEN)}

\* bytes.decode().replace("\x00", ""): every NUL is removed
StripNul(bytes) == SelectSeq(bytes, LAMBDA b : b # 0)

(***************************************************************************)
(* Dictionary helpers for Device.message.                                  *)
(***************************************************************************)
DictPut(m, k, v) == [x \in (DOMAIN m) \cup {k} |-> IF x = k THEN v ELSE m[x]]
DictDel(m, k) == [x \in (DOMAIN m) \ {k} |-> m[x]]
EmptyDict == [x \in {} |-> 0]

(***************************************************************************)
(* Message objects and their packed form.                                  *)
(***************************************************************************)
PayloadLen(kind) ==
  CASE kind = "GetLabel" -> 0
    [] kind = "LightSetPower" -> 6
    [] kind = "StateLabel" -> LABEL_FIELD_LEN
    [] kind = "SetLabel" -> LABEL_FIELD_LEN
    [] kind = "LightStatePower" -> 2
    [] kind = "StateVersion" -> 12
    [] kind = "StateHostFirmware" -> 20
    [] kind = "StateWifiFirmware" -> 20
    [] kind = "MultiZoneGetColorZones" -> 2
    [] kind = "MultiZoneStateMultiZone" -> 2 + ZONES_PER_REPLY * 8
    [] OTHER -> 0

\* Message.__init__ and the subclasses' __init__
NewMessage(kind, target_addr, source_id, seq_num, payload, ack_requested, response_requested) ==
  [kind |-> kind,
   message_type |-> MSG_IDS[kind],
   tagged |-> IF target_addr = BROADCAST_MAC \/ kind = "GetService" THEN 1 ELSE 0,
   source_id |-> source_id,
   target_addr |-> IF kind = "GetService" THEN BROADCAST_MAC ELSE target_addr,
   ack_requested |-> IF ack_requested THEN 1 ELSE 0,
   response_requested |-> IF response_requested THEN 1 ELSE 0,
   seq_num |-> seq_num,
   payload |-> payload,
   packed |-> None]

\* Message.generate_packed_message: header fields and payload
generate_packed_message(msg) ==
  [size |-> HEADER_SIZE_BYTES + PayloadLen(msg.kind),
   tagged |-> msg.tagged,
   source_id |-> msg.source_id,
   target_addr |-> msg.target_addr,
   ack_requested |-> msg.ack_requested,
   response_requested |-> msg.response_requested,
   seq_num |-> msg.seq_num,
   message_type |-> msg.message_type,
   payload |-> msg.payload]

\* Message.packed_message: generated once, then cached in _packed_message
packed_message(msg) ==
  IF IsNone(msg.packed) THEN [msg EXCEPT !.packed = Some(generate_packed_message(msg))]
  ELSE msg

(***************************************************************************)
(* The bytes of a message: struct.pack and bitstring little-endian fields, *)
(* and unpack_lifx_message reading them back.                              *)
(***************************************************************************)
RECURSIVE LittleEndian(_, _)
LittleEndian(n, width) ==
  IF width = 0 THEN << >>
  ELSE <<n % 256>> \o LittleEndian(n \div 256, width - 1)

RECURSIVE FromLittleEndian(_)
FromLittleEndian(bytes) ==
  IF bytes = << >> THEN 0
  ELSE Head(bytes) + 256 * FromLittleEndian(Tail(bytes))

\* the python slice bytes[from:to]
Slice(bytes, from, to) ==
  SubSeq(bytes, from + 1, IF to < Len(bytes) THEN to ELSE Len(bytes))

\* convert_MAC_to_int packed as "<Q": the address bytes in written order
MacBytes(addr) ==
  IF addr = MacAddr THEN <<170, 187, 204, 221, 238, 255>>
  ELSE <<0, 0, 0, 0, 0, 0>>

\* ":".join("%02x" % b) over the six address bytes
MacString(bytes) ==
  IF bytes = <<170, 187, 204, 221, 238, 255>> THEN MacAddr
  ELSE IF bytes = <<0, 0, 0, 0, 0, 0>> THEN BROADCAST_MAC
  ELSE "other"

\* the subclasses' get_payload
get_payload(msg) ==
  CASE msg.kind = "LightSetPower" ->
         LittleEndian(msg.payload[1], 2) \o LittleEndian(msg.payload[2], 4)
    [] msg.kind = "LightStatePower" -> LittleEndian(msg.payload, 2)
    [] msg.kind = "StateLabel" -> Pad(msg.payload, LABEL_FIELD_LEN)
    [] msg.kind = "SetLabel" -> Pad(msg.payload, LABEL_FIELD_LEN)
    [] msg.kind = "MultiZoneGetColorZones" ->
         LittleEndian(msg.payload[1], 1) \o LittleEndian(msg.payload[2], 1)
    [] OTHER -> << >>

\* Message.get_frame: size, origin/tagged/addressable/protocol, source_id
get_frame(msg, size) ==
  LittleEndian(size, 2)
    \o LittleEndian(msg.tagged * 8192 + 4096 + 1024, 2)
    \o LittleEndian(msg.source_id, 4)

\* Message.get_frame_addr: target, reserved, response flags, seq_num
get_frame_addr(msg) ==
  MacBytes(msg.target_addr) \o <<0, 0>> \o <<0, 0, 0, 0, 0, 0>>
    \o <<(msg.ack_requested % 2) * 2 + (msg.response_requested % 2)>>
    \o LittleEndian(msg.seq_num, 1)

\* Message.get_protocol_header
get_protocol_header(msg) ==
  LittleEndian(0, 8) \o LittleEndian(msg.message_type, 2) \o LittleEndian(0, 2)

\* Message.generate_packed_message, as bytes: header + payload
packed_bytes(msg) ==
  LET payload == get_payload(msg)
  IN get_frame(msg, HEADER_SIZE_BYTES + Len(payload)) \o get_frame_addr(msg)
       \o get_protocol_header(msg) \o payload

\* the kinds of the model that unpack_lifx_message has a branch for
UnpackedKinds ==
  {"GetService", "GetLabel", "StateLabel", "Acknowledgement", "LightSetPower",
   "LightStatePower"}

\* unpack_lifx_message: the header fields, then the branch of message_type;
\* a type without a branch becomes a plain Message holding the payload bytes
unpack_lifx_message(data) ==
  LET header_str == Slice(data, 0, HEADER_SIZE_BYTES)
      payload_str == Slice(data, HEADER_SIZE_BYTES, Len(data))
      source_id == FromLittleEndian(Slice(header_str, 4, 8))
      target_addr == MacString(Slice(header_str, 8, 14))
      response_flags == header_str[23]
      ack_requested == 2 * ((response_flags \div 2) % 2)
      response_requested == response_flags % 2
      seq_num == header_str[24]
      message_type == FromLittleEndian(Slice(header_str, 32, 34))
      kinds == {k \in UnpackedKinds : MSG_IDS[k] = message_type}
  IN IF kinds # {}
       THEN LET kind == CHOOSE k \in kinds : TRUE
                payload ==
                  CASE kind = "LightSetPower" ->
                         <<FromLittleEndian(Slice(payload_str, 0, 2)),
                           FromLittleEndian(Slice(payload_str, 2, 6))>>
                    [] kind = "LightStatePower" ->
                         FromLittleEndian(Slice(payload_str, 0, 2))
                    [] kind = "StateLabel" -> Slice(payload_str, 0, LABEL_FIELD_LEN)
                    [] OTHER -> << >>
            IN NewMessage(kind, target_addr, source_id, seq_num, payload,
                          ack_requested # 0, response_requested # 0)
       ELSE [kind |-> "Message", message_type |-> message_type,
             tagged |-> IF target_addr = BROADCAST_MAC THEN 1 ELSE 0,
             source_id |-> source_id, target_addr |-> target_addr,
             ack_requested |-> IF ack_requested # 0 THEN 1 ELSE 0,
             response_requested |-> IF response_requested # 0 THEN 1 ELSE 0,
             seq_num |-> seq_num, payload |-> payload_str, packed |-> None]

NoMsg == [kind |-> "None"]
NoneReply == [kind |-> "None"]

\* what unpack_lifx_message returns for the inbound datagrams of the model
Inbound(kind, seq_num, source_id, payload) ==
  [kind |-> kind, seq_num |-> seq_num, source_id |-> source_id, payload |-> payload]

(***************************************************************************)
(* State.  The fields of one Device, the retry tasks created for it by     *)
(* _create_background_task, and what the host and the user callbacks have  *)
(* observed.                                                               *)
(***************************************************************************)
VARIABLES
  seq,            \* Device.seq
  message,        \* Device.message: seq_num -> [response_type, event, callb]
  source_id,      \* Device.source_id
  transport,      \* Device.transport: "None" or "open"
  registered,     \* Device.registered
  lastmsg,        \* "fresh", or "old" once now - unregister_timeout > Device.lastmsg
  label,          \* Device.label
  power_level,    \* Device.power_level
  color_zones,    \* Light.color_zones: None, or the list of zone colours
  heard,          \* the zone replies datagram_received was given: seq_num and index
  disc,           \* the LifxDiscovery object: its fields and what it has emitted
  lights,         \* LifxDiscovery.lights: mac address -> endpoint (its index in endpoints)
  endpoints,      \* the Light objects LifxDiscovery has created, in order of creation
  sockets,        \* the UDP sockets opened for endpoints: remote address, owner, closed
  hostcalls,      \* the calls LifxDiscovery.parent received: register and unregister
  scan,           \* one call of LifxScan.scan: its locals, its tasks, the loop's ready queue
  fire,           \* the fire_sending task of one fire_and_forget call
  cache,          \* Device.vendor, product, version and the firmware attributes
  cache_hits,     \* getter calls that found their attribute cached
  host,           \* what the calling program holds: results of the library's functions
  default_callb,  \* Device.default_callb is set
  sunk,           \* the last message handed to default_callb
  raised,         \* the exception that ended a handler early, "none" if none did
  parent_last,    \* the last call the parent received: "none", "register", "unregister"
  task,           \* the try_sending tasks: locals, position, and what each has done
  issued          \* number of requests issued so far

vars == <<seq, message, source_id, transport, registered, lastmsg, label, power_level,
          color_zones, heard, disc, lights, endpoints, sockets, hostcalls, scan, fire, cache, cache_hits, host, default_callb, sunk, raised, parent_last, task, issued>>

\* the calling program before it has called any function of the library
NoHost ==
  [fixture |-> None, codec |-> None, kelvin |-> None, duplicates |-> 0,
   acked |-> {}, demux |-> None, cleaned |-> FALSE]

NoCallb == [op |-> "none", value |-> 0, user |-> FALSE]

IdleTask ==
  [pc |-> "idle",          \* "idle", "created", "waiting", "done"
   msg |-> NoMsg,          \* the Message given to try_sending
   cb |-> NoCallb,         \* the callable stored in the entry for this request
   max_attempts |-> None,  \* the max_attempts argument
   max |-> 0,              \* max_attempts once resolved against retry_count
   attempts |-> 0,
   signaled |-> FALSE,     \* the Event of the current attempt is set
   out |-> << >>,          \* datagrams given to transport.sendto, in order
   ucalls |-> << >>,       \* calls of the user's callback: argument and what it saw
   unreg |-> 0,            \* calls of self.unregister() made by the task
   how |-> "none",         \* how the task ended: "break", "absent", "exhausted", "loop"
   woke |-> None,          \* what the task saw when it resumed after event.wait()
   born |-> 0,             \* the request is the born-th request issued on the endpoint
   dropped |-> "none"]     \* its entry was removed unanswered: by a reply of a
                           \* "foreign" source or another "kind", or by an "error"

\* LifxDiscovery.__init__
NewDiscovery ==
  [transport |-> "None",
   task |-> "None",                 \* "None", or "started" by start()
   discovery_interval |-> DISCOVERY_INTERVAL,
   discovery_step |-> DISCOVERY_STEP,
   discovery_countdown |-> 0,
   source_id |-> OwnSourceId,
   scheduled |-> 0,                 \* calls of discover the loop still holds
   ticks |-> 0,                     \* calls of discover that have run
   emitted |-> << >>,               \* broadcasts: the tick and the datagram
   cancels |-> 0,                   \* calls of task.cancel() by cleanup
   forced |-> 0,                    \* times the host has set the countdown to 0
   cleaned |-> FALSE]               \* cleanup() has been called

\* Device.__init__: the attributes that are fetched once
NoCache ==
  [vendor |-> None, product |-> None, version |-> None,
   host_firmware_version |-> None, host_firmware_build_timestamp |-> None,
   wifi_firmware_version |-> None, wifi_firmware_build_timestamp |-> None]

\* no fire_and_forget call yet
NoFire ==
  [pc |-> "idle",            \* "idle", "created", "sleeping", "done"
   msg |-> NoMsg,            \* the Message given to fire_sending
   num_repeats |-> None,     \* the num_repeats argument
   sent_msg_count |-> 0,
   out |-> << >>,            \* datagrams given to transport.sendto, in order
   skipped |-> 0]            \* iterations that found no transport

\* the IPv4 addresses the host may have, named by their position
ScanPool == 1..MaxAdapters

\* LifxScan.scan before it is called
NewScan ==
  [pc |-> "idle",            \* "idle", "waiting" (in aio.wait), "resuming", "returned"
   ips |-> {},               \* the local ips
   event |-> [i \in ScanPool |-> FALSE],     \* ScanManager._event of the ip's manager
   mtask |-> [i \in ScanPool |-> "None"],    \* the manager.lifx_ip() task
   controller |-> [i \in ScanPool |-> "None"], \* the ip's LifxDiscovery
   regs |-> [i \in ScanPool |-> "none"],     \* when the manager's first register came
   ready |-> << >>,          \* the loop's queue of callbacks, first in first out
   timer |-> "none",         \* the timeout handle of aio.wait
   counter |-> 0,            \* aio.wait: tasks not yet completed
   result |-> None]          \* what scan returned

\* the device as one value, so that a handler is a function from state to state
Cur ==
  [seq |-> seq, message |-> message, source_id |-> source_id, transport |-> transport,
   registered |-> registered, lastmsg |-> lastmsg, label |-> label,
   power_level |-> power_level, color_zones |-> color_zones, heard |-> heard,
   disc |-> disc, lights |-> lights, endpoints |-> endpoints, sockets |-> sockets,
   hostcalls |-> hostcalls, scan |-> scan, fire |-> fire,
   cache |-> cache, cache_hits |-> cache_hits, host |-> host,
   default_callb |-> default_callb, sunk |-> sunk,
   raised |-> raised,
   parent_last |-> parent_last, task |-> task, issued |-> issued]

Becomes(d) ==
  /\ seq' = d.seq
  /\ message' = d.message
  /\ source_id' = d.source_id
  /\ transport' = d.transport
  /\ registered' = d.registered
  /\ lastmsg' = d.lastmsg
  /\ label' = d.label
  /\ power_level' = d.power_level
  /\ color_zones' = d.color_zones
  /\ heard' = d.heard
  /\ disc' = d.disc
  /\ lights' = d.lights
  /\ endpoints' = d.endpoints
  /\ sockets' = d.sockets
  /\ hostcalls' = d.hostcalls
  /\ scan' = d.scan
  /\ fire' = d.fire
  /\ cache' = d.cache
  /\ cache_hits' = d.cache_hits
  /\ host' = d.host
  /\ default_callb' = d.default_callb
  /\ sunk' = d.sunk
  /\ raised' = d.raised
  /\ parent_last' = d.parent_last
  /\ task' = d.task
  /\ issued' = d.issued

\* Device.__init__ (and Light.__init__): nothing sent, nothing pending
Init ==
  /\ seq = 0
  /\ message = EmptyDict
  /\ source_id = OwnSourceId
  /\ transport = "None"
  /\ registered = FALSE
  /\ lastmsg = "fresh"
  /\ label = None
  /\ power_level = None
  /\ color_zones = None
  /\ heard = << >>
  /\ disc = NewDiscovery
  /\ lights = EmptyDict
  /\ endpoints = << >>
  /\ sockets = << >>
  /\ hostcalls = [register |-> << >>, unregister |-> << >>]
  /\ scan = NewScan
  /\ fire = NoFire
  /\ cache = NoCache
  /\ cache_hits = 0
  /\ host = NoHost
  /\ default_callb = FALSE
  /\ sunk = None
  /\ raised = "none"
  /\ parent_last = "none"
  /\ task = [t \in TaskIds |-> IdleTask]
  /\ issued = 0

(***************************************************************************)
(* Device: sequence counter and registration.                              *)
(***************************************************************************)
\* seq_next without the reduction modulo 128
seq_next_unreduced(d) == [d EXCEPT !.seq = d.seq + 1]

\* Device.seq_next: self.seq = (self.seq + 1) % 128
seq_next(d) == [d EXCEPT !.seq = (d.seq + 1) % SEQ_MOD]

\* Device.register
register(d) ==
  IF ~d.registered
    THEN [d EXCEPT !.registered = TRUE, !.parent_last = "register"]
    ELSE d

\* unregister without the test of the last inbound message
unregister_always(d) ==
  IF d.registered
    THEN [d EXCEPT !.registered = FALSE, !.parent_last = "unregister"]
    ELSE d

\* Device.unregister: only when no message was received recently
unregister(d) ==
  IF d.registered /\ d.lastmsg = "old"
    THEN [d EXCEPT !.registered = FALSE, !.parent_last = "unregister"]
    ELSE d

(***************************************************************************)
(* Cache handlers and callbacks.                                           *)
(***************************************************************************)
\* resp_set_label keeping the NUL padding of the wire field
resp_set_label_padded(d, resp, lbl) ==
  IF ~IsNone(lbl) /\ The(lbl) # << >>
    THEN [d EXCEPT !.label = lbl]
    ELSE IF resp.kind # "None"
      THEN IF resp.kind = "StateLabel"
             THEN [d EXCEPT !.label = Some(resp.payload)]
             ELSE [d EXCEPT !.raised = "AttributeError"]
      ELSE d

\* resp_set_label testing "label is not None" where the code tests "label"
resp_set_label_not_none(d, resp, lbl) ==
  IF ~IsNone(lbl)
    THEN [d EXCEPT !.label = lbl]
    ELSE IF resp.kind # "None"
      THEN IF resp.kind = "StateLabel"
             THEN [d EXCEPT !.label = Some(StripNul(resp.payload))]
             ELSE [d EXCEPT !.raised = "AttributeError"]
      ELSE d

\* Device.resp_set_label(resp, label=None): "if label" is false for None and
\* for the empty string; "elif resp" then reads resp.label, which only a
\* StateLabel has
resp_set_label(d, resp, lbl) ==
  IF ~IsNone(lbl) /\ The(lbl) # << >>
    THEN [d EXCEPT !.label = lbl]
    ELSE IF resp.kind # "None"
      THEN IF resp.kind = "StateLabel"
             THEN [d EXCEPT !.label = Some(StripNul(resp.payload))]
             ELSE [d EXCEPT !.raised = "AttributeError"]
      ELSE d

\* Light.resp_set_lightpower(resp, power_level=None)
resp_set_lightpower(d, resp, pl) ==
  IF ~IsNone(pl)
    THEN [d EXCEPT !.power_level = pl]
    ELSE IF resp.kind # "None"
      THEN [d EXCEPT !.power_level = Some(resp.payload)]
      ELSE d

\* str(n) for n >= 0: the decimal digits, as characters
DigitChar(k) == <<"0", "1", "2", "3", "4", "5", "6", "7", "8", "9">>[k + 1]
RECURSIVE Str(_)
Str(n) == IF n < 10 THEN <<DigitChar(n)>> ELSE Str(n \div 10) \o <<DigitChar(n % 10)>>

\* the number a run of digit characters stands for
DigitValue(c) == CHOOSE k \in 0..9 : DigitChar(k) = c
RECURSIVE IntOf(_)
IntOf(cs) ==
  IF cs = << >> THEN 0
  ELSE 10 * IntOf(SubSeq(cs, 1, Len(cs) - 1)) + DigitValue(cs[Len(cs)])

\* digits without their trailing zeros
RECURSIVE StripZeros(_)
StripZeros(cs) ==
  IF cs # << >> /\ cs[Len(cs)] = "0" THEN StripZeros(SubSeq(cs, 1, Len(cs) - 1)) ELSE cs

\* float(s) for s = digits "." digits: the number, written as its type
\* followed by the digits of repr() (at most 5 significant digits on each
\* side here, which a double tells apart)
Float(cs) ==
  LET dot == CHOOSE i \in 1..Len(cs) : cs[i] = "."
      frac == StripZeros(SubSeq(cs, dot + 1, Len(cs)))
  IN <<"float">> \o Str(IntOf(SubSeq(cs, 1, dot - 1))) \o <<".">>
       \o (IF frac = << >> THEN <<"0">> ELSE frac)

\* Device.resp_set_version(resp)
resp_set_version(d, resp) ==
  IF resp.kind # "None"
    THEN [d EXCEPT !.cache.vendor = Some(resp.payload.vendor),
                   !.cache.product = Some(resp.payload.product),
                   !.cache.version = Some(resp.payload.version)]
    ELSE d

\* Device.resp_set_hostfirmware(resp): version >> 16 and version & 0xFFFF
resp_set_hostfirmware(d, resp) ==
  IF resp.kind # "None"
    THEN [d EXCEPT !.cache.host_firmware_version =
                     Some(Str(resp.payload.version \div 65536) \o <<".">>
                            \o Str(resp.payload.version % 65536)),
                   !.cache.host_firmware_build_timestamp = Some(resp.payload.build)]
    ELSE d

\* Device.resp_set_wififirmware(resp): version >> 16 and version & 0xFF, as a float
resp_set_wififirmware(d, resp) ==
  IF resp.kind # "None"
    THEN [d EXCEPT !.cache.wifi_firmware_version =
                     Some(Float(Str(resp.payload.version \div 65536) \o <<".">>
                                  \o Str(resp.payload.version % 256))),
                   !.cache.wifi_firmware_build_timestamp = Some(resp.payload.build)]
    ELSE d

\* the colour of zone z (0-based) on the device, and what one reply carries
Hsbk(z) == <<z, z, z, 3500>>
ZoneColors(index) == [j \in 1..ZONES_PER_REPLY |-> Hsbk(index + j - 1)]
ZonePayload(count, index) == [count |-> count, index |-> index, color |-> ZoneColors(index)]

\* the loop of resp_set_multizonemultizone over i in range(lo, hi), on the
\* list zones (0-based i is position i + 1)
RECURSIVE FillZones(_, _, _, _, _)
FillZones(zones, i, hi, index, color) ==
  IF i >= hi THEN zones
  ELSE LET c == color[i - index + 1]
           z1 == IF i > Len(zones) - 1
                   THEN Append(zones \o [k \in 1..(i - Len(zones)) |-> c], c)
                   ELSE [zones EXCEPT ![i + 1] = c]
       IN FillZones(z1, i + 1, hi, index, color)

RECURSIVE PaintZones(_, _, _, _)
PaintZones(zones, i, hi, c) ==
  IF i > hi THEN zones
  ELSE PaintZones([zones EXCEPT ![i + 1] = c], i + 1, hi, c)

Min(a, b) == IF a <= b THEN a ELSE b

\* Light.resp_set_multizonemultizone(resp, args=None)
resp_set_multizonemultizone(d, resp, args) ==
  IF ~IsNone(args)
    THEN IF ~IsNone(d.color_zones) /\ The(d.color_zones) # << >>
           THEN [d EXCEPT !.color_zones =
                   Some(PaintZones(The(@), The(args).start_index, The(args).end_index,
                                   The(args).color))]
           ELSE d
    ELSE IF resp.kind # "None"
      THEN LET p == resp.payload
               zones == IF IsNone(d.color_zones) THEN [k \in 1..p.count |-> None]
                        ELSE The(d.color_zones)
           IN [d EXCEPT !.color_zones =
                 Some(FillZones(zones, p.index, Min(p.index + ZONES_PER_REPLY, p.count),
                                p.index, p.color))]
      ELSE d

\* the user's callback: it is recorded with what it could observe when called
UserCallback(d, c, arg, waiter) ==
  [d EXCEPT !.task[c].ucalls = Append(@,
     [arg |-> arg, label |-> d.label, power_level |-> d.power_level,
      pending |-> d.task[c].msg.seq_num \in DOMAIN d.message,
      waiter_set |-> waiter, attempts |-> d.task[c].attempts,
      unreg |-> d.task[c].unreg, registered |-> d.registered])]

\* callb(self, arg) for the callable of request c: the lambdas built by
\* get_label, set_label and set_power run the cache partial, then the user's
\* callback, unless the partial raised
CachePartial(d, c, arg) ==
  LET cb == d.task[c].cb
  IN CASE cb.op = "get_label" -> resp_set_label(d, arg, None)
       [] cb.op = "set_label" -> resp_set_label(d, arg, Some(d.task[c].msg.payload))
       [] cb.op = "set_power" -> resp_set_lightpower(d, arg, Some(cb.value))
       [] cb.op = "get_version" -> resp_set_version(d, arg)
       [] cb.op = "get_hostfirmware" -> resp_set_hostfirmware(d, arg)
       [] cb.op = "get_wififirmware" -> resp_set_wififirmware(d, arg)
       [] OTHER -> d

\* the cache partial of request c raises when called with arg
CallbRaises(d, c, arg) ==
  CachePartial([d EXCEPT !.raised = "none"], c, arg).raised # "none"

Callb(d, c, arg, waiter) ==
  LET d1 == CachePartial(d, c, arg)
  IN IF d.task[c].cb.user /\ ~CallbRaises(d, c, arg)
       THEN UserCallback(d1, c, arg, waiter)
       ELSE d1

\* "State" in response.__class__.__name__
StateKinds == {"StateLabel", "LightStatePower", "MultiZoneStateMultiZone",
               "StateVersion", "StateHostFirmware", "StateWifiFirmware"}

\* the resp_set_<kind> method datagram_received finds for a State message
SetMethod(d, response) ==
  CASE response.kind = "StateLabel" -> resp_set_label(d, response, None)
    [] response.kind = "LightStatePower" -> resp_set_lightpower(d, response, None)
    [] response.kind = "MultiZoneStateMultiZone" ->
         resp_set_multizonemultizone(d, response, None)
    [] response.kind = "StateVersion" -> resp_set_version(d, response)
    [] response.kind = "StateHostFirmware" -> resp_set_hostfirmware(d, response)
    [] response.kind = "StateWifiFirmware" -> resp_set_wififirmware(d, response)
    [] OTHER -> d

(***************************************************************************)
(* Device.datagram_received.                                               *)
(***************************************************************************)
\* the waiter of an entry is set (an entry whose waiter is still None has none)
WaiterSet(d, entry) == entry.event # NoTask /\ d.task[entry.event].signaled

\* the correlated branch with the user callback run before the cache handler
Correlate_callback_first(d, response, entry) ==
  LET d1 == IF entry.callb # NoTask
              THEN Callb(d, entry.callb, response, WaiterSet(d, entry)) ELSE d
      d2 == IF response.kind \in StateKinds
              THEN SetMethod(d1, response) ELSE d1
  IN IF entry.event = NoTask
       THEN [d2 EXCEPT !.raised = "AttributeError"]
       ELSE LET d3 == [d2 EXCEPT !.task[entry.event].signaled = TRUE]
            IN [d3 EXCEPT !.message = DictDel(@, response.seq_num)]

\* the correlated branch emptying the whole table instead of deleting one entry
Correlate_clear(d, response, entry) ==
  LET d1 == IF response.kind \in StateKinds
              THEN SetMethod(d, response) ELSE d
      d2 == IF entry.callb # NoTask
              THEN Callb(d1, entry.callb, response, WaiterSet(d1, entry)) ELSE d1
  IN IF entry.event = NoTask
       THEN [d2 EXCEPT !.raised = "AttributeError"]
       ELSE LET d3 == [d2 EXCEPT !.task[entry.event].signaled = TRUE]
            IN [d3 EXCEPT !.message = EmptyDict]

\* lines 213-224: reply of the expected kind carrying our source_id.
\* myevent.set() on an entry whose waiter is still None raises, which ends the
\* handler before the entry is deleted.
Correlate(d, response, entry) ==
  LET d1 == IF response.kind \in StateKinds
              THEN SetMethod(d, response) ELSE d
      d2 == IF entry.callb # NoTask
              THEN Callb(d1, entry.callb, response, WaiterSet(d1, entry)) ELSE d1
  IN IF entry.callb # NoTask /\ CallbRaises(d1, entry.callb, response)
       THEN d2
       ELSE IF entry.event = NoTask
         THEN [d2 EXCEPT !.raised = "AttributeError"]
         ELSE LET d3 == [d2 EXCEPT !.task[entry.event].signaled = TRUE]
              IN [d3 EXCEPT !.message = DictDel(@, response.seq_num)]

\* the dispatch without the comparison of source_id
Dispatch_any_source(d, response) ==
  IF response.seq_num \in DOMAIN d.message
    THEN LET entry == d.message[response.seq_num]
         IN IF response.kind = entry.response_type
              THEN Correlate(d, response, entry)
              ELSE IF response.kind = "Acknowledgement"
                     THEN d
                     ELSE [d EXCEPT !.message = DictDel(@, response.seq_num)]
    ELSE IF d.default_callb
           THEN [d EXCEPT !.sunk = Some(response.kind)]
           ELSE d

\* the dispatch treating an Acknowledgement like any other unexpected kind
Dispatch_ack_deletes(d, response) ==
  IF response.seq_num \in DOMAIN d.message
    THEN LET entry == d.message[response.seq_num]
         IN IF response.kind = entry.response_type
              THEN IF response.source_id = d.source_id
                     THEN Correlate(d, response, entry)
                     ELSE [d EXCEPT !.message = DictDel(@, response.seq_num)]
              ELSE [d EXCEPT !.message = DictDel(@, response.seq_num)]
    ELSE IF d.default_callb
           THEN [d EXCEPT !.sunk = Some(response.kind)]
           ELSE d

\* the dispatch leaving the entry in place when the kind is not the expected one
Dispatch_keep_on_mismatch(d, response) ==
  IF response.seq_num \in DOMAIN d.message
    THEN LET entry == d.message[response.seq_num]
         IN IF response.kind = entry.response_type
              THEN IF response.source_id = d.source_id
                     THEN Correlate(d, response, entry)
                     ELSE [d EXCEPT !.message = DictDel(@, response.seq_num)]
              ELSE d
    ELSE IF d.default_callb
           THEN [d EXCEPT !.sunk = Some(response.kind)]
           ELSE d

\* lines 209-231: dispatch on the pending table
Dispatch(d, response) ==
  IF response.seq_num \in DOMAIN d.message
    THEN LET entry == d.message[response.seq_num]
         IN IF response.kind = entry.response_type
              THEN IF response.source_id = d.source_id
                     THEN Correlate(d, response, entry)
                     ELSE [d EXCEPT !.message = DictDel(@, response.seq_num)]
              ELSE IF response.kind = "Acknowledgement"
                     THEN d
                     ELSE [d EXCEPT !.message = DictDel(@, response.seq_num)]
    ELSE IF d.default_callb
           THEN [d EXCEPT !.sunk = Some(response.kind)]
           ELSE d

\* Device.datagram_received
datagram_received(d, response) ==
  LET d1 == register(d)
      d2 == [d1 EXCEPT !.lastmsg = "fresh"]
  IN Dispatch(d2, response)

\* unpack_lifx_message on the bytes of a datagram: struct.unpack raises when
\* the payload holds fewer bytes than the fields of its kind take
Decodable(data) == data.len >= PayloadLen(data.kind)

Decoded(data) ==
  Inbound(data.kind, data.seq_num, data.source_id, data.payload)

\* datagram_received that decodes whatever bytes there are
datagram_received_lenient(d, data) ==
  datagram_received(d, Decoded(data))

\* Device.datagram_received, from the bytes: the exception of
\* unpack_lifx_message ends the handler after self.register()
datagram_received_data(d, data) ==
  IF Decodable(data)
    THEN datagram_received(d, Decoded(data))
    ELSE [register(d) EXCEPT !.raised = "struct.error"]

(***************************************************************************)
(* Device.error_received.                                                  *)
(***************************************************************************)
\* the body of the loop over self.message.values()
FlushEntry(d, entry) ==
  IF entry.response_type # "Acknowledgement"
    THEN LET d1 == IF entry.callb # NoTask
                     THEN Callb(d, entry.callb, NoneReply, WaiterSet(d, entry)) ELSE d
         IN IF entry.event # NoTask
              THEN [d1 EXCEPT !.task[entry.event].signaled = TRUE]
              ELSE d1
    ELSE d

RECURSIVE FlushAll(_, _)
FlushAll(d, keys) ==
  IF keys = {} THEN d
  ELSE LET k == CHOOSE x \in keys : \A y \in keys : x <= y
       IN FlushAll(FlushEntry(d, d.message[k]), keys \ {k})

\* error_received without self.message.clear()
error_received_keep(d) == FlushAll(d, DOMAIN d.message)

\* Device.error_received
\* error_received without the test "response_type != Acknowledgement"
error_received_all(d) ==
  LET d0 == [d EXCEPT !.message = [k \in DOMAIN d.message |->
                                     [d.message[k] EXCEPT !.response_type = "Any"]]]
      d1 == FlushAll(d0, DOMAIN d0.message)
  IN [d1 EXCEPT !.message = EmptyDict]

error_received(d) ==
  LET d1 == FlushAll(d, DOMAIN d.message)
  IN [d1 EXCEPT !.message = EmptyDict]

(***************************************************************************)
(* Send primitives and the typed operations built on them.                 *)
(***************************************************************************)
FreeSlots(d) ==
  {t \in TaskIds : /\ d.task[t].pc = "idle"
                   /\ \A k \in DOMAIN d.message :
                        d.message[k].callb # t /\ d.message[k].event # t}

\* _create_background_task(self.try_sending(msg, timeout_secs, max_attempts))
CreateTask(d, t, msg, cb, max_attempts) ==
  [d EXCEPT !.task[t] = [IdleTask EXCEPT !.pc = "created", !.msg = msg, !.cb = cb,
                                         !.max_attempts = max_attempts,
                                         !.born = d.issued + 1],
            !.issued = @ + 1]

NewEntry(response_type, t, cb) ==
  [response_type |-> response_type, event |-> NoTask,
   callb |-> IF cb.op = "none" THEN NoTask ELSE t]

\* Device.req_with_ack
req_with_ack(d, t, kind, payload, cb, max_attempts) ==
  LET d1 == seq_next(d)
      msg == NewMessage(kind, MacAddr, d1.source_id, d1.seq, payload, TRUE, FALSE)
      d2 == [d1 EXCEPT !.message = DictPut(@, msg.seq_num, NewEntry("Acknowledgement", t, cb))]
  IN CreateTask(d2, t, msg, cb, max_attempts)

\* Device.req_with_resp
req_with_resp(d, t, kind, response_type, payload, cb, max_attempts) ==
  LET d1 == seq_next(d)
      msg == NewMessage(kind, MacAddr, d1.source_id, d1.seq, payload, FALSE, TRUE)
      d2 == [d1 EXCEPT !.message = DictPut(@, msg.seq_num, NewEntry(response_type, t, cb))]
  IN CreateTask(d2, t, msg, cb, max_attempts)

\* Device.get_label(callb): asks only while nothing is cached
get_label(d, t, user) ==
  IF IsNone(d.label)
    THEN req_with_resp(d, t, "GetLabel", "StateLabel", << >>,
                       [op |-> "get_label", value |-> 0, user |-> user], None)
    ELSE d

\* get_version that asks the device whatever is cached
get_version_always(d, t, user) ==
  req_with_resp(d, t, "GetVersion", "StateVersion", << >>,
                [op |-> "get_version", value |-> 0, user |-> user], None)

\* Device.get_version(callb)
get_version(d, t, user) ==
  IF IsNone(d.cache.vendor)
    THEN req_with_resp(d, t, "GetVersion", "StateVersion", << >>,
                       [op |-> "get_version", value |-> 0, user |-> user], None)
    ELSE [d EXCEPT !.cache_hits = @ + 1]

\* Device.get_hostfirmware(callb)
get_hostfirmware(d, t, user) ==
  IF IsNone(d.cache.host_firmware_version)
    THEN req_with_resp(d, t, "GetHostFirmware", "StateHostFirmware", << >>,
                       [op |-> "get_hostfirmware", value |-> 0, user |-> user], None)
    ELSE [d EXCEPT !.cache_hits = @ + 1]

\* Device.get_wififirmware(callb)
get_wififirmware(d, t, user) ==
  IF IsNone(d.cache.wifi_firmware_version)
    THEN req_with_resp(d, t, "GetWifiFirmware", "StateWifiFirmware", << >>,
                       [op |-> "get_wififirmware", value |-> 0, user |-> user], None)
    ELSE [d EXCEPT !.cache_hits = @ + 1]

\* set_power sending the boolean as the level instead of the 16-bit maximum
set_power_bool(d, t, value, user) ==
  LET myvalue == IF value THEN 1 ELSE 0
  IN req_with_ack(d, t, "LightSetPower", <<myvalue, 0>>,
                  [op |-> "set_power", value |-> myvalue, user |-> user], None)

\* Light.get_color_zones(start_index, end_index, callb)
get_color_zones(d, t, start_index, end_index, cb) ==
  LET last == IF IsNone(end_index) THEN start_index + 7 ELSE The(end_index)
  IN req_with_resp(d, t, "MultiZoneGetColorZones", "MultiZoneStateMultiZone",
                   <<start_index, last>>, cb, None)

\* Device.set_label(value, callb): the label cut to 32 characters is both the
\* payload and the label argument of the partial
set_label(d, t, value, user) ==
  LET v == SubSeq(value, 1, Min(Len(value), LABEL_FIELD_LEN))
  IN req_with_ack(d, t, "SetLabel", v, [op |-> "set_label", value |-> 0, user |-> user],
                  None)

\* Light.set_power(value, callb) with rapid=False and duration=0
set_power(d, t, value, user) ==
  LET myvalue == IF value THEN MAX_UNSIGNED_16_BIT_INTEGER_VALUE ELSE 0
  IN req_with_ack(d, t, "LightSetPower", <<myvalue, 0>>,
                  [op |-> "set_power", value |-> myvalue, user |-> user], None)

(***************************************************************************)
(* Device.try_sending, one operator per stretch between two awaits.        *)
(***************************************************************************)
Finish(d, t, how) == [d EXCEPT !.task[t].pc = "done", !.task[t].how = how]

\* lines 343-344: if self.transport: self.transport.sendto(msg.packed_message)
SendTo(d, t) ==
  IF d.transport # "None"
    THEN LET m == packed_message(d.task[t].msg)
         IN [d EXCEPT !.task[t].msg = m, !.task[t].out = Append(@, The(m.packed))]
    ELSE d

\* a retry that takes a new sequence number from the counter
Attempt_reseq(d, t) ==
  LET tk == d.task[t]
      d0 == IF tk.attempts > 0 THEN seq_next(d) ELSE d
  IN IF tk.attempts < tk.max
       THEN IF tk.msg.seq_num \notin DOMAIN d.message
              THEN Finish(d, t, "absent")
              ELSE LET d1 == [d0 EXCEPT !.message[tk.msg.seq_num].event = t,
                                        !.task[t].signaled = FALSE,
                                        !.task[t].attempts = @ + 1,
                                        !.task[t].pc = "waiting"]
                   IN SendTo(d1, t)
       ELSE Finish(d, t, "loop")

\* lines 337-347: the loop test, the presence test, a fresh Event stored in the
\* entry, the send, up to the await of event.wait()
Attempt(d, t) ==
  LET tk == d.task[t]
  IN IF tk.attempts < tk.max
       THEN IF tk.msg.seq_num \notin DOMAIN d.message
              THEN Finish(d, t, "absent")
              ELSE LET d1 == [d EXCEPT !.message[tk.msg.seq_num].event = t,
                                       !.task[t].signaled = FALSE,
                                       !.task[t].attempts = @ + 1,
                                       !.task[t].pc = "waiting"]
                   IN SendTo(d1, t)
       ELSE Finish(d, t, "loop")

\* lines 331-336: the defaults, then the first pass through the loop
try_sending_start(d, t) ==
  LET n == IF IsNone(d.task[t].max_attempts) THEN DEFAULT_ATTEMPTS
           ELSE The(d.task[t].max_attempts)
  IN Attempt([d EXCEPT !.task[t].max = n, !.task[t].attempts = 0], t)

\* line 348: event.wait() returned, break
try_sending_wakeup(d, t) ==
  LET d1 == [d EXCEPT !.task[t].woke =
               Some([label |-> d.label, power_level |-> d.power_level,
                     pending |-> d.task[t].msg.seq_num \in DOMAIN d.message])]
  IN Finish(d1, t, "break")

\* the last attempt timed out, without the test "msg.seq_num in self.message":
\* null to the request's own callback whether or not its entry is still there
Exhausted_unchecked(d, t) ==
  LET d1 == IF d.task[t].cb.op # "none" THEN Callb(d, t, NoneReply, FALSE) ELSE d
  IN [d1 EXCEPT !.message = DictDel(@, d.task[t].msg.seq_num)]

\* lines 350-355: the last attempt timed out: null to the callback of the entry
Exhausted(d, t) ==
  LET k == d.task[t].msg.seq_num
  IN IF k \in DOMAIN d.message
       THEN LET entry == d.message[k]
                d1 == IF entry.callb # NoTask
                        THEN Callb(d, entry.callb, NoneReply, WaiterSet(d, entry)) ELSE d
            IN [d1 EXCEPT !.message = DictDel(@, k)]
       ELSE d

\* try_sending with the final attempt tested by > instead of >=
try_sending_timeout_late(d, t) ==
  IF d.task[t].attempts > d.task[t].max
    THEN LET d1 == Exhausted(d, t)
             d2 == unregister(d1)
             d3 == [d2 EXCEPT !.task[t].unreg = @ + 1, !.task[t].how = "exhausted"]
         IN [d3 EXCEPT !.task[t].pc = "done"]
    ELSE Attempt(d, t)

\* try_sending after a cleanup that also cancelled it: the task ends at once
try_sending_timeout_cancelled(d, t) ==
  IF d.host.cleaned
    THEN Finish(d, t, "cancelled")
    ELSE IF d.task[t].attempts >= d.task[t].max
      THEN LET d1 == Exhausted(d, t)
               d2 == unregister(d1)
               d3 == [d2 EXCEPT !.task[t].unreg = @ + 1, !.task[t].how = "exhausted"]
           IN [d3 EXCEPT !.task[t].pc = "done"]
      ELSE Attempt(d, t)

\* lines 349-357, then back to the loop test
try_sending_timeout(d, t) ==
  IF d.task[t].attempts >= d.task[t].max
    THEN LET d1 == Exhausted(d, t)
             d2 == unregister(d1)
             d3 == [d2 EXCEPT !.task[t].unreg = @ + 1, !.task[t].how = "exhausted"]
         IN [d3 EXCEPT !.task[t].pc = "done"]
    ELSE Attempt(d, t)

(***************************************************************************)
(* Actions.                                                                *)
(***************************************************************************)
\* a task step is queued ahead of the next datagram the loop reads
ReadyStep ==
  \E t \in TaskIds : \/ task[t].pc = "created"
                     \/ task[t].pc = "waiting" /\ task[t].signaled

\* Device.connection_made
ConnectionMade ==
  /\ transport = "None"
  /\ Becomes(register([Cur EXCEPT !.transport = "open"]))

\* Device.cleanup
Cleanup ==
  /\ transport = "open"
  /\ Becomes([Cur EXCEPT !.transport = "None"])

\* time passes until now - unregister_timeout > lastmsg
Elapse ==
  /\ lastmsg = "fresh"
  /\ Becomes([Cur EXCEPT !.lastmsg = "old"])

\* the user assigns Device.default_callb
SetDefaultCallb ==
  /\ ~default_callb
  /\ Becomes([Cur EXCEPT !.default_callb = TRUE])

InboundSeqs == (DOMAIN message) \cup {STRAY_SEQ}
InboundKinds == {"Acknowledgement", "StateLabel", "LightStatePower"}
InboundPayloads(kind) ==
  CASE kind = "StateLabel" -> WireLabels
    [] kind = "LightStatePower" -> {MAX_UNSIGNED_16_BIT_INTEGER_VALUE}
    [] OTHER -> {<< >>}

\* the request whose entry a handler removes without an answer is marked with
\* the cause, read from the state before the handler ran
Waiting(d, t) == d.task[t].pc = "waiting"
Pending(d, t) == d.task[t].pc \in {"created", "waiting"}
HoldsEntry(d, t) == Pending(d, t) /\ d.task[t].msg.seq_num \in DOMAIN d.message

ObserveDatagram(pre, post, response) ==
  [post EXCEPT
     !.heard = IF response.kind = "MultiZoneStateMultiZone"
                 THEN Append(@, [seq_num |-> response.seq_num,
                                 index |-> response.payload.index])
                 ELSE @,
     !.task = [t \in TaskIds |->
     IF HoldsEntry(pre, t) /\ pre.task[t].msg.seq_num = response.seq_num
       THEN [post.task[t] EXCEPT
               !.dropped =
                 IF response.kind = pre.message[response.seq_num].response_type
                   THEN IF response.source_id # pre.source_id THEN "foreign" ELSE @
                   ELSE IF response.kind # "Acknowledgement" THEN "kind" ELSE @]
       ELSE post.task[t]]]

ObserveError(pre, post) ==
  [post EXCEPT !.task = [t \in TaskIds |->
     IF HoldsEntry(pre, t) THEN [post.task[t] EXCEPT !.dropped = "error"]
     ELSE post.task[t]]]

Received(response) ==
  /\ transport = "open"
  /\ ~ReadyStep
  /\ Becomes(ObserveDatagram(Cur, datagram_received(Cur, response), response))

DatagramReceived ==
  \E kind \in InboundKinds, s \in InboundSeqs, src \in {OwnSourceId, ForeignSourceId} :
    \E payload \in InboundPayloads(kind) :
      Received(Inbound(kind, s, src, payload))

ErrorReceived ==
  /\ transport = "open"
  /\ Becomes(ObserveError(Cur, error_received(Cur)))

\* the host issues requests on a connected endpoint, into the lowest free place
CanIssue(t, limit) ==
  /\ transport = "open"
  /\ issued < limit
  /\ FreeSlots(Cur) # {}
  /\ t = CHOOSE x \in FreeSlots(Cur) : \A y \in FreeSlots(Cur) : x <= y

\* the requests of the model all carry a user callback
UserCallb == [op |-> "user", value |-> 0, user |-> TRUE]

GetLabel ==
  \E t \in TaskIds :
    /\ CanIssue(t, MaxIssued)
    /\ Becomes(get_label(Cur, t, TRUE))

SetPower ==
  \E t \in TaskIds :
    /\ CanIssue(t, MaxIssued)
    /\ Becomes(set_power(Cur, t, TRUE, TRUE))

ReqWithResp ==
  \E t \in TaskIds, n \in 1..MaxAttempts :
    /\ CanIssue(t, MaxIssued)
    /\ Becomes(req_with_resp(Cur, t, "GetLabel", "StateLabel", << >>, UserCallb, Some(n)))

ReqWithAck ==
  \E t \in TaskIds, n \in 1..MaxAttempts :
    /\ CanIssue(t, MaxIssued)
    /\ Becomes(req_with_ack(Cur, t, "LightSetPower",
                            <<MAX_UNSIGNED_16_BIT_INTEGER_VALUE, 0>>, UserCallb, Some(n)))

TaskStart ==
  \E t \in TaskIds :
    /\ task[t].pc = "created"
    /\ Becomes(try_sending_start(Cur, t))

WakeUp ==
  \E t \in TaskIds :
    /\ task[t].pc = "waiting"
    /\ task[t].signaled
    /\ Becomes(try_sending_wakeup(Cur, t))

\* the timeout of the current attempt of task t expires; it also wins over a
\* signal whose wake-up has not run yet
TimedOut(t) ==
  /\ task[t].pc = "waiting"
  /\ Becomes(try_sending_timeout(Cur, t))

Timeout == \E t \in TaskIds : TimedOut(t)

\* task.add_done_callback(_BACKGROUND_TASKS.discard): a finished task is dropped
Discard ==
  \E t \in TaskIds :
    /\ task[t].pc = "done"
    /\ Becomes([Cur EXCEPT !.task[t] = IdleTask])

\* the done callback of a finished task is queued when the task ends, ahead of
\* whatever the loop picks up afterwards
NoneDone == \A t \in TaskIds : task[t].pc # "done"

Next ==
  \/ Discard
  \/ /\ NoneDone
     /\ \/ ConnectionMade
        \/ Elapse
        \/ DatagramReceived
        \/ ErrorReceived
        \/ GetLabel
        \/ SetPower
        \/ ReqWithResp
        \/ ReqWithAck
        \/ TaskStart
        \/ WakeUp
        \/ Timeout

Spec == Init /\ [][Next]_vars

(***************************************************************************)
(* A long run of requests on one endpoint: raw req_with_resp calls that    *)
(* are answered at once or left waiting, until the sequence counter has    *)
(* gone round.  Attempt timeouts are left out: a waiting request stays     *)
(* outstanding.                                                            *)
(***************************************************************************)
ReqWrap ==
  \E t \in TaskIds :
    /\ CanIssue(t, MaxIssuedWrap)
    /\ Becomes(req_with_resp(Cur, t, "GetLabel", "StateLabel", << >>, UserCallb, Some(1)))

AnsweredWrap ==
  \E s \in DOMAIN message :
    Received(Inbound("StateLabel", s, OwnSourceId, Pad(Kitchen, LABEL_FIELD_LEN)))

NextWrap ==
  \/ Discard
  \/ /\ NoneDone
     /\ \/ ConnectionMade
        \/ ReqWrap
        \/ TaskStart
        \/ AnsweredWrap
        \/ WakeUp

SpecWrap == Init /\ [][NextWrap]_vars

(***************************************************************************)
(* Reading the zones of a multi-zone light: get_color_zones(0, 15) on a    *)
(* device of ZoneCount zones, which answers a request with one             *)
(* MultiZoneStateMultiZone per 8 zones, all carrying the request's         *)
(* seq_num.                                                                *)
(***************************************************************************)
GetColorZones ==
  \E t \in TaskIds, cb \in {NoCallb, UserCallb} :
    /\ CanIssue(t, MaxIssuedZones)
    /\ Becomes(get_color_zones(Cur, t, 0, Some(ZoneCount - 1), cb))

ZoneIndexes == {0, ZONES_PER_REPLY}

ZoneReply ==
  \E s \in 1..issued, index \in ZoneIndexes :
    /\ Len(heard) < MaxZoneReplies
    /\ Received(Inbound("MultiZoneStateMultiZone", s, OwnSourceId,
                        ZonePayload(ZoneCount, index)))

NextZones ==
  \/ Discard
  \/ /\ NoneDone
     /\ \/ ConnectionMade
        \/ Elapse
        \/ GetColorZones
        \/ TaskStart
        \/ ZoneReply
        \/ WakeUp
        \/ Timeout

SpecZones == Init /\ [][NextZones]_vars

(***************************************************************************)
(* LifxDiscovery and the Light endpoints it creates.  An endpoint is a     *)
(* Device; of its conversation state the discovery only needs what         *)
(* survives a rediscovery (source_id, seq, the pending table) and what the *)
(* controller reads or writes (ip_addr, port, registered, transport,       *)
(* task).  Addresses are IPv4 (ipv6prefix is None).                        *)
(***************************************************************************)
NoSocket == 0
MacB == "11:22:33:44:55:66"
Ip1 == "192.168.1.10"
Ip2 == "192.168.1.20"
UDP_BROADCAST_IP == "255.255.255.255"

\* Light.__init__ (Device.__init__) for the oid-th object created
NewLight(mac_addr, ip_addr, port, oid) ==
  [mac_addr |-> mac_addr, ip_addr |-> ip_addr, port |-> port,
   registered |-> FALSE,
   transport |-> NoSocket,
   task |-> "None",            \* "None", "pending" (not run yet), "done"
   remote_addr |-> None,       \* the remote_addr given to the pending task
   source_id |-> OwnSourceId + oid,
   seq |-> 0,
   message |-> {},             \* the seq_nums of the pending table
   sent |-> << >>,             \* requests issued on the endpoint, and by whom
   cleaned |-> FALSE]          \* cleanup() has been called on the object

\* LifxDiscovery.register
LifxDiscovery_register(d, oid) ==
  [d EXCEPT !.hostcalls.register = Append(@, oid)]

\* LifxDiscovery.unregister
LifxDiscovery_unregister(d, oid) ==
  [d EXCEPT !.hostcalls.unregister = Append(@, oid)]

\* Device.register without the test of self.registered
Endpoint_register_always(d, oid) ==
  LifxDiscovery_register([d EXCEPT !.endpoints[oid].registered = TRUE], oid)

\* Device.register on endpoint oid
Endpoint_register(d, oid) ==
  IF ~d.endpoints[oid].registered
    THEN LifxDiscovery_register([d EXCEPT !.endpoints[oid].registered = TRUE], oid)
    ELSE d

\* Device.unregister on endpoint oid; old: the last message is older than
\* unregister_timeout
Endpoint_unregister(d, oid, old) ==
  IF d.endpoints[oid].registered /\ old
    THEN LifxDiscovery_unregister([d EXCEPT !.endpoints[oid].registered = FALSE], oid)
    ELSE d

\* Device.connection_made on endpoint oid
Endpoint_connection_made(d, oid, sock) ==
  Endpoint_register([d EXCEPT !.endpoints[oid].transport = sock], oid)

\* Device.datagram_received on endpoint oid, for a datagram whose seq_num is
\* not pending: self.register() at line 207, nothing else of the endpoint
Endpoint_datagram_received(d, oid) == Endpoint_register(d, oid)

\* Device.cleanup on endpoint oid
Endpoint_cleanup(d, oid) ==
  LET e == d.endpoints[oid]
      d1 == IF e.transport # NoSocket
              THEN [d EXCEPT !.sockets[e.transport].closed = TRUE,
                             !.endpoints[oid].transport = NoSocket]
              ELSE d
      d2 == IF e.task # "None"
              THEN [d1 EXCEPT !.endpoints[oid].task = "None",
                              !.endpoints[oid].remote_addr = None]
              ELSE d1
  IN [d2 EXCEPT !.endpoints[oid].cleaned = TRUE]

\* loop.create_datagram_endpoint(lambda: light, remote_addr=...) as a task
Endpoint_connect_task(d, oid, remote_ip, remote_port) ==
  [d EXCEPT !.endpoints[oid].task = "pending",
            !.endpoints[oid].remote_addr = Some([ip |-> remote_ip, port |-> remote_port])]

\* the task runs: the socket is opened and connection_made is called
Endpoint_connected(d, oid) ==
  LET sock == Len(d.sockets) + 1
      d1 == [d EXCEPT !.sockets = Append(@, [remote_addr |-> The(d.endpoints[oid].remote_addr),
                                             owner |-> oid, closed |-> FALSE]),
                      !.endpoints[oid].task = "done",
                      !.endpoints[oid].remote_addr = None]
  IN Endpoint_connection_made(d1, oid, sock)

\* the task ends with an OSError: no socket, no connection_made
Endpoint_connect_failed(d, oid) ==
  [d EXCEPT !.endpoints[oid].task = "done", !.endpoints[oid].remote_addr = None]

\* what unpack_lifx_message returns for a datagram the controller receives
Announcement(kind, target_addr, service, port, ip_addr) ==
  [kind |-> kind, target_addr |-> target_addr, service |-> service, port |-> port,
   ip_addr |-> ip_addr]

\* the branch of datagram_received that never looks the MAC up in self.lights
LifxDiscovery_found_always_new(d, mac_addr, remote_ip, remote_port) ==
  LET oid == Len(d.endpoints) + 1
      d1 == [d EXCEPT !.endpoints = Append(@, NewLight(mac_addr, remote_ip,
                                                       remote_port, oid)),
                      !.lights = DictPut(@, mac_addr, oid)]
  IN Endpoint_connect_task(d1, oid, remote_ip, remote_port)

\* the same branch without the "if light.registered: return" test
LifxDiscovery_found_rebind_always(d, mac_addr, remote_ip, remote_port) ==
  IF mac_addr \in DOMAIN d.lights
    THEN LET oid == d.lights[mac_addr]
             d1 == Endpoint_cleanup(d, oid)
             d2 == [d1 EXCEPT !.endpoints[oid].ip_addr = remote_ip,
                              !.endpoints[oid].port = remote_port]
         IN Endpoint_connect_task(d2, oid, remote_ip, remote_port)
    ELSE LET oid == Len(d.endpoints) + 1
             d1 == [d EXCEPT !.endpoints = Append(@, NewLight(mac_addr, remote_ip,
                                                              remote_port, oid)),
                             !.lights = DictPut(@, mac_addr, oid)]
         IN Endpoint_connect_task(d1, oid, remote_ip, remote_port)

\* LifxDiscovery.datagram_received, from "if mac_addr in self.lights" on
LifxDiscovery_found(d, mac_addr, remote_ip, remote_port) ==
  IF mac_addr \in DOMAIN d.lights
    THEN LET oid == d.lights[mac_addr]
         IN IF d.endpoints[oid].registered
              THEN d
              ELSE LET d1 == Endpoint_cleanup(d, oid)
                       d2 == [d1 EXCEPT !.endpoints[oid].ip_addr = remote_ip,
                                        !.endpoints[oid].port = remote_port]
                   IN Endpoint_connect_task(d2, oid, remote_ip, remote_port)
    ELSE LET oid == Len(d.endpoints) + 1
             d1 == [d EXCEPT !.endpoints = Append(@, NewLight(mac_addr, remote_ip,
                                                              remote_port, oid)),
                             !.lights = DictPut(@, mac_addr, oid)]
         IN Endpoint_connect_task(d1, oid, remote_ip, remote_port)

\* datagram_received without the "response.service == 1" test
LifxDiscovery_datagram_received_any_service(d, response) ==
  IF response.target_addr = BROADCAST_MAC
    THEN d
    ELSE IF response.kind = "StateService"
      THEN LifxDiscovery_found(d, response.target_addr, response.ip_addr, response.port)
      ELSE IF response.kind = "LightState"
        THEN LifxDiscovery_found(d, response.target_addr, response.ip_addr,
                                 UDP_BROADCAST_PORT)
        ELSE d

\* LifxDiscovery.datagram_received
LifxDiscovery_datagram_received(d, response) ==
  IF response.target_addr = BROADCAST_MAC
    THEN d
    ELSE IF response.kind = "StateService" /\ response.service = SERVICE_UDP
      THEN LifxDiscovery_found(d, response.target_addr, response.ip_addr, response.port)
      ELSE IF response.kind = "LightState"
        THEN LifxDiscovery_found(d, response.target_addr, response.ip_addr,
                                 UDP_BROADCAST_PORT)
        ELSE d

\* the GetService datagram discover broadcasts, and where it is sent
GetServiceBroadcast(d) ==
  [datagram |-> generate_packed_message(
                  NewMessage("GetService", BROADCAST_MAC, d.disc.source_id, 0, << >>,
                             FALSE, TRUE)),
   addr |-> [ip |-> UDP_BROADCAST_IP, port |-> UDP_BROADCAST_PORT]]

\* discover with "< 0" for "<= 0"
discover_strict(d) ==
  LET d0 == [d EXCEPT !.disc.scheduled = @ - 1, !.disc.ticks = @ + 1]
  IN IF d0.disc.transport # "None"
       THEN LET d1 == IF d0.disc.discovery_countdown < 0
                        THEN [d0 EXCEPT !.disc.discovery_countdown = d0.disc.discovery_interval,
                                        !.disc.emitted =
                                          Append(@, [tick |-> d0.disc.ticks,
                                                     sent |-> GetServiceBroadcast(d0)])]
                        ELSE [d0 EXCEPT !.disc.discovery_countdown =
                                          @ - d0.disc.discovery_step]
            IN [d1 EXCEPT !.disc.scheduled = @ + 1]
       ELSE d0

\* LifxDiscovery.discover, called by the loop
discover(d) ==
  LET d0 == [d EXCEPT !.disc.scheduled = @ - 1, !.disc.ticks = @ + 1]
  IN IF d0.disc.transport # "None"
       THEN LET d1 == IF d0.disc.discovery_countdown <= 0
                        THEN [d0 EXCEPT !.disc.discovery_countdown = d0.disc.discovery_interval,
                                        !.disc.emitted =
                                          Append(@, [tick |-> d0.disc.ticks,
                                                     sent |-> GetServiceBroadcast(d0)])]
                        ELSE [d0 EXCEPT !.disc.discovery_countdown =
                                          @ - d0.disc.discovery_step]
            IN [d1 EXCEPT !.disc.scheduled = @ + 1]
       ELSE d0

\* LifxDiscovery.start
LifxDiscovery_start(d) == [d EXCEPT !.disc.task = "started"]

\* LifxDiscovery.connection_made
LifxDiscovery_connection_made(d) ==
  [d EXCEPT !.disc.transport = "open", !.disc.task = "done",
            !.disc.scheduled = @ + 1]

RECURSIVE CleanupAll(_, _)
CleanupAll(d, oids) ==
  IF oids = {} THEN d
  ELSE LET o == CHOOSE x \in oids : \A y \in oids : x <= y
       IN CleanupAll(Endpoint_cleanup(d, o), oids \ {o})

\* cleanup that leaves the lights map and its endpoints alone
LifxDiscovery_cleanup_controller_only(d) ==
  LET d1 == IF d.disc.transport # "None" THEN [d EXCEPT !.disc.transport = "None"] ELSE d
      d2 == IF d1.disc.task # "None"
              THEN [d1 EXCEPT !.disc.task = "None", !.disc.cancels = @ + 1]
              ELSE d1
  IN [d2 EXCEPT !.disc.cleaned = TRUE]

\* LifxDiscovery.cleanup
LifxDiscovery_cleanup(d) ==
  LET d1 == IF d.disc.transport # "None" THEN [d EXCEPT !.disc.transport = "None"] ELSE d
      d2 == IF d1.disc.task # "None"
              THEN [d1 EXCEPT !.disc.task = "None", !.disc.cancels = @ + 1]
              ELSE d1
      d3 == CleanupAll(d2, {d2.lights[m] : m \in DOMAIN d2.lights})
  IN [d3 EXCEPT !.lights = EmptyDict, !.disc.cleaned = TRUE]

\* Device.get_version called by whom on endpoint oid: a request-with-response
Endpoint_get_version(d, oid, whom) ==
  LET n == (d.endpoints[oid].seq + 1) % SEQ_MOD
  IN [d EXCEPT !.endpoints[oid].seq = n,
               !.endpoints[oid].message = @ \cup {n},
               !.endpoints[oid].sent = Append(@, [kind |-> "GetVersion", by |-> whom])]

\* the last attempt of the request under seq_num k of endpoint oid times out
Endpoint_exhausted(d, oid, k, old) ==
  Endpoint_unregister([d EXCEPT !.endpoints[oid].message = @ \ {k}], oid, old)

(***************************************************************************)
(* Actions of the discovery.                                               *)
(***************************************************************************)
DiscStart ==
  /\ disc.task = "None" /\ disc.transport = "None" /\ ~disc.cleaned
  /\ Becomes(LifxDiscovery_start(Cur))

DiscConnectionMade ==
  /\ disc.task = "started"
  /\ Becomes(LifxDiscovery_connection_made(Cur))

Discover ==
  /\ disc.scheduled > 0
  /\ disc.ticks < MaxDiscTicks
  /\ Becomes(discover(Cur))

\* the datagrams the controller is given: announcements of the UDP service
\* and of a light after booting, from two addresses, and what it must ignore
Announcements ==
  {Announcement("StateService", MacAddr, SERVICE_UDP, UDP_BROADCAST_PORT, Ip1),
   Announcement("StateService", MacAddr, SERVICE_UDP, OtherPort, Ip2),
   Announcement("LightState", MacAddr, 0, 0, Ip1),
   Announcement("StateService", MacB, SERVICE_UDP, UDP_BROADCAST_PORT, Ip2),
   Announcement("StateService", MacAddr, SERVICE_OTHER, UDP_BROADCAST_PORT, Ip1),
   Announcement("StateService", BROADCAST_MAC, SERVICE_UDP, UDP_BROADCAST_PORT, Ip1),
   Announcement("StateLabel", MacAddr, 0, 0, Ip1)}

DiscReceived(response) ==
  /\ disc.transport = "open"
  /\ Becomes(LifxDiscovery_datagram_received(Cur, response))

DiscDatagram == \E response \in Announcements : DiscReceived(response)

EndpointConnects ==
  \E oid \in 1..Len(endpoints) :
    /\ endpoints[oid].task = "pending"
    /\ Becomes(Endpoint_connected(Cur, oid))

EndpointConnectFails ==
  \E oid \in 1..Len(endpoints) :
    /\ endpoints[oid].task = "pending"
    /\ Becomes(Endpoint_connect_failed(Cur, oid))

\* the host asks an endpoint for its version
HostGetVersion ==
  \E oid \in 1..Len(endpoints) :
    /\ endpoints[oid].transport # NoSocket
    /\ endpoints[oid].seq < MaxEndpointSeq
    /\ Becomes(Endpoint_get_version(Cur, oid, "host"))

EndpointExhausts ==
  \E oid \in 1..Len(endpoints), old \in BOOLEAN :
    \E k \in endpoints[oid].message :
      Becomes(Endpoint_exhausted(Cur, oid, k, old))

DiscCleanup ==
  /\ ~disc.cleaned
  /\ Becomes(LifxDiscovery_cleanup(Cur))

NextDisc ==
  \/ DiscStart
  \/ DiscConnectionMade
  \/ Discover
  \/ DiscDatagram
  \/ EndpointConnects
  \/ EndpointConnectFails
  \/ HostGetVersion
  \/ EndpointExhausts
  \/ DiscCleanup

SpecDisc == Init /\ [][NextDisc]_vars

(***************************************************************************)
(* The discovery with datagrams arriving on the sockets of its endpoints.  *)
(***************************************************************************)
EndpointDatagram ==
  \E oid \in 1..Len(endpoints) :
    /\ endpoints[oid].transport # NoSocket
    /\ Becomes(Endpoint_datagram_received(Cur, oid))

NextNotify ==
  \/ DiscStart
  \/ DiscConnectionMade
  \/ DiscDatagram
  \/ EndpointConnects
  \/ EndpointConnectFails
  \/ EndpointDatagram
  \/ HostGetVersion
  \/ EndpointExhausts
  \/ DiscCleanup

SpecNotify == Init /\ [][NextNotify]_vars

(***************************************************************************)
(* Any datagram on the discovery socket: every kind, MAC and service, with *)
(* the last one delivered kept in host.demux.                              *)
(***************************************************************************)
DemuxKinds == {"StateService", "LightState", "StateLabel", "Acknowledgement"}

DemuxInputs ==
  {Announcement(k, m, sv, UDP_BROADCAST_PORT, Ip1) :
     k \in DemuxKinds, m \in {MacAddr, MacB, BROADCAST_MAC},
     sv \in {SERVICE_UDP, SERVICE_OTHER}}

DemuxDatagram ==
  \E response \in DemuxInputs :
    /\ disc.transport = "open"
    /\ Becomes([LifxDiscovery_datagram_received(Cur, response)
                  EXCEPT !.host.demux = Some(response)])

NextDemux ==
  \/ DiscStart
  \/ DiscConnectionMade
  \/ DemuxDatagram
  \/ EndpointConnects
  \/ EndpointConnectFails
  \/ DiscCleanup

SpecDemux == Init /\ [][NextDemux]_vars

(***************************************************************************)
(* The attributes that are fetched once: get_version, get_hostfirmware and *)
(* get_wififirmware, their replies, and what ends a request without one.   *)
(***************************************************************************)
\* version fields 0x00020050 (major 2, minor 80) and 0x0003012C (major 3,
\* minor 300)
FirmwareVersions == {131152, 196908}

FirmwarePayload(v) == [build |-> 1, reserved1 |-> 0, version |-> v]

CachePayloads(kind) ==
  CASE kind = "StateVersion" -> {[vendor |-> 1, product |-> 27, version |-> 0]}
    [] OTHER -> {FirmwarePayload(v) : v \in FirmwareVersions}

CacheDatagram ==
  \E kind \in {"StateVersion", "StateHostFirmware", "StateWifiFirmware"},
     s \in InboundSeqs :
    \E payload \in CachePayloads(kind) :
      Received(Inbound(kind, s, OwnSourceId, payload))

\* the host calls a getter on a connected endpoint
CanAsk(t) ==
  /\ CanIssue(t, MaxIssuedCache)
  /\ cache_hits < MaxCacheHits

GetVersion ==
  \E t \in TaskIds : CanAsk(t) /\ Becomes(get_version(Cur, t, TRUE))

GetHostFirmware ==
  \E t \in TaskIds : CanAsk(t) /\ Becomes(get_hostfirmware(Cur, t, TRUE))

GetWifiFirmware ==
  \E t \in TaskIds : CanAsk(t) /\ Becomes(get_wififirmware(Cur, t, TRUE))

NextCache ==
  \/ Discard
  \/ /\ NoneDone
     /\ \/ ConnectionMade
        \/ CacheDatagram
        \/ ErrorReceived
        \/ GetVersion
        \/ GetHostFirmware
        \/ GetWifiFirmware
        \/ TaskStart
        \/ WakeUp
        \/ Timeout

SpecCache == Init /\ [][NextCache]_vars

(***************************************************************************)
(* Capability-specific operations called on an endpoint whose product is   *)
(* known.  The catalogue is a static table keyed by product id; two of its *)
(* rows are kept: a colour bulb (27) and a multi-zone strip (32).          *)
(***************************************************************************)
products_dict ==
  [p \in {27, 32} |->
     [buttons |-> FALSE, color |-> TRUE, extended_multizone |-> (p = 32),
      hev |-> FALSE, infrared |-> FALSE, matrix |-> FALSE,
      multizone |-> (p = 32), relays |-> FALSE,
      max_kelvin |-> 9000, min_kelvin |-> 2500]]

CapDatagram ==
  \E s \in InboundSeqs :
    \/ \E p \in DOMAIN products_dict :
         Received(Inbound("StateVersion", s, OwnSourceId,
                          [vendor |-> 1, product |-> p, version |-> 0]))
    \/ /\ Len(heard) < MaxZoneReplies
       /\ Received(Inbound("MultiZoneStateMultiZone", s, OwnSourceId,
                           ZonePayload(ZoneCount, 0)))

\* the host reads the first zones of the endpoint, whatever its product
ReadZones ==
  \E t \in TaskIds :
    /\ CanIssue(t, MaxIssuedCache)
    /\ Becomes(get_color_zones(Cur, t, 0, None, NoCallb))

NextCap ==
  \/ Discard
  \/ /\ NoneDone
     /\ \/ ConnectionMade
        \/ CapDatagram
        \/ GetVersion
        \/ ReadZones
        \/ TaskStart
        \/ WakeUp
        \/ Timeout

SpecCap == Init /\ [][NextCap]_vars

(***************************************************************************)
(* fixtures.get_fixture: the operation group chosen for a product.  The    *)
(* product is the catalogue's feature record; a missing feature reads as   *)
(* None, which is false in a test, as is a kelvin bound of 0.              *)
(***************************************************************************)
FeatureRecords ==
  [buttons : BOOLEAN, color : BOOLEAN, extended_multizone : BOOLEAN,
   hev : BOOLEAN, infrared : BOOLEAN, matrix : BOOLEAN, multizone : BOOLEAN,
   relays : BOOLEAN, max_kelvin : {0, 9000}, min_kelvin : {0, 2500}]

\* the class returned, or "raised" for the final Exception
get_fixture(product) ==
  IF product.relays /\ product.buttons THEN "Switch"
  ELSE IF product.multizone /\ product.extended_multizone THEN "MultizoneLight"
  ELSE IF product.color THEN "ColorLight"
  ELSE IF product.infrared /\ product.hev THEN "HevLight"
  ELSE IF product.max_kelvin # 0 /\ product.min_kelvin # 0 THEN "Light"
  ELSE IF product.matrix THEN "MatrixLight"
  ELSE "raised"

\* the calling program resolves the group of a product
GetFixture ==
  \E product \in FeatureRecords :
    /\ IsNone(host.fixture)
    /\ Becomes([Cur EXCEPT !.host.fixture =
                  Some([product |-> product, group |-> get_fixture(product)])])

NextFixture == GetFixture

SpecFixture == Init /\ [][NextFixture]_vars

(***************************************************************************)
(* Datagrams cut short: the header is whole, the payload has fewer bytes   *)
(* than its kind's fields.                                                 *)
(***************************************************************************)
ShortKinds == {"StateLabel", "LightStatePower"}

ShortData ==
  {[kind |-> kind, seq_num |-> s, source_id |-> OwnSourceId,
    payload |-> IF kind = "StateLabel" THEN Pad(Kitchen, LABEL_FIELD_LEN)
                ELSE MAX_UNSIGNED_16_BIT_INTEGER_VALUE,
    len |-> n] :
     kind \in ShortKinds, s \in InboundSeqs, n \in {0, 1}}

MalformedReceived ==
  \E data \in ShortData :
    /\ transport = "open"
    /\ ~ReadyStep
    /\ Becomes(datagram_received_data(Cur, data))

NextMalformed ==
  \/ Discard
  \/ /\ NoneDone
     /\ \/ ConnectionMade
        \/ SetDefaultCallb
        \/ DatagramReceived
        \/ MalformedReceived
        \/ GetLabel
        \/ TaskStart
        \/ WakeUp
        \/ Timeout

SpecMalformed == Init /\ [][NextMalformed]_vars

(***************************************************************************)
(* A message built, packed and unpacked again by the calling program.      *)
(***************************************************************************)
CodecKinds == UnpackedKinds \cup {"MultiZoneGetColorZones"}

CodecPayloads(kind) ==
  CASE kind = "LightSetPower" ->
         {<<level, duration>> :
            level \in {0, MAX_UNSIGNED_16_BIT_INTEGER_VALUE}, duration \in {0, 1000}}
    [] kind = "LightStatePower" -> {0, MAX_UNSIGNED_16_BIT_INTEGER_VALUE}
    [] kind = "StateLabel" -> {Kitchen, Pad(Den, LABEL_FIELD_LEN)}
    [] kind = "MultiZoneGetColorZones" -> {<<0, 7>>, <<8, 15>>}
    [] OTHER -> {<< >>}

RoundTrip ==
  \E kind \in CodecKinds, mac \in {MacAddr, BROADCAST_MAC},
     s \in {0, 1, SEQ_MOD - 1}, ack \in BOOLEAN, resp \in BOOLEAN :
    \E payload \in CodecPayloads(kind) :
      /\ IsNone(host.codec)
      /\ LET msg == NewMessage(kind, mac, OwnSourceId, s, payload, ack, resp)
         IN Becomes([Cur EXCEPT !.host.codec =
              Some([kind |-> kind, mac |-> mac, source_id |-> OwnSourceId,
                    seq_num |-> s, payload |-> payload, ack |-> ack, resp |-> resp,
                    unpacked |-> unpack_lifx_message(packed_bytes(msg))])])

NextCodec == RoundTrip

SpecCodec == Init /\ [][NextCodec]_vars

(***************************************************************************)
(* get_kelvin: the kelvin of a switch's backlight colour from the 16-bit   *)
(* value on the wire.                                                      *)
(***************************************************************************)
KELVIN_RANGE == MAX_KELVIN_VALUE - MIN_KELVIN_VALUE
BYTE_RANGE == MAX_BYTE_VALUE - MIN_BYTE_VALUE

\* int(round(num / den)) for num >= 0: to the nearest integer, a half to the
\* even one (the float quotient rounds as the exact one does for every
\* 16-bit value)
Round(num, den) ==
  LET q == num \div den
      r == num % den
  IN IF 2 * r > den \/ (2 * r = den /\ q % 2 = 1) THEN q + 1 ELSE q

\* int(num / den): the fraction is dropped
Truncate(num, den) == num \div den

\* MAX_KELVIN_VALUE - ((byte_value - MIN_BYTE_VALUE) / BYTE_RANGE) * KELVIN_RANGE
\* as a fraction over BYTE_RANGE
KelvinNumerator(byte_value) ==
  MAX_KELVIN_VALUE * BYTE_RANGE - (byte_value - MIN_BYTE_VALUE) * KELVIN_RANGE

\* get_kelvin with int() in place of int(round())
get_kelvin_truncated(byte_value) ==
  IF byte_value <= MIN_BYTE_VALUE THEN MAX_KELVIN_VALUE
  ELSE IF byte_value < MAX_BYTE_VALUE
    THEN Truncate(KelvinNumerator(byte_value), BYTE_RANGE)
  ELSE MIN_KELVIN_VALUE

get_kelvin(byte_value) ==
  IF byte_value <= MIN_BYTE_VALUE THEN MAX_KELVIN_VALUE
  ELSE IF byte_value < MAX_BYTE_VALUE
    THEN Round(KelvinNumerator(byte_value), BYTE_RANGE)
  ELSE MIN_KELVIN_VALUE

\* 16-bit values: the ends, the clamped sides, the midpoint and steps of 384
\* across the range (every second one is a half before rounding)
KelvinBytes ==
  {0, 10494, 10496, 33535, 56574, 56575, 56576, 60000, 65535}
    \cup {10495 + 384 * k : k \in 0..120}

\* the calling program converts the kelvin of two backlight colours
BacklightKelvin ==
  \E a \in KelvinBytes, b \in KelvinBytes :
    /\ IsNone(host.kelvin)
    /\ a <= b
    /\ Becomes([Cur EXCEPT !.host.kelvin =
                  Some([low |-> a, low_kelvin |-> get_kelvin(a),
                        high |-> b, high_kelvin |-> get_kelvin(b)])])

NextKelvin == BacklightKelvin

SpecKelvin == Init /\ [][NextKelvin]_vars

(***************************************************************************)
(* Requests with a user callback under every kind of event: replies of the *)
(* expected and of another kind, acknowledgements, replies that come again *)
(* after their request has ended, attempt timeouts and transport errors.   *)
(***************************************************************************)
\* a datagram carrying the seq_num of a request that is no longer pending;
\* host.duplicates counts them
DuplicateReceived ==
  \E kind \in InboundKinds, s \in 1..issued :
    \E payload \in InboundPayloads(kind) :
      /\ s \notin DOMAIN message
      /\ host.duplicates < MaxDuplicates
      /\ transport = "open"
      /\ ~ReadyStep
      /\ LET response == Inbound(kind, s, OwnSourceId, payload)
             d == ObserveDatagram(Cur, datagram_received(Cur, response), response)
         IN Becomes([d EXCEPT !.host.duplicates = @ + 1])

NextOnce ==
  \/ Discard
  \/ /\ NoneDone
     /\ \/ ConnectionMade
        \/ SetDefaultCallb
        \/ DatagramReceived
        \/ DuplicateReceived
        \/ ErrorReceived
        \/ GetLabel
        \/ SetPower
        \/ TaskStart
        \/ WakeUp
        \/ Timeout

SpecOnce == Init /\ [][NextOnce]_vars

(***************************************************************************)
(* Requests and their replies with time going on: the timeout of an        *)
(* attempt that is waited for does expire, a task that can run does run,   *)
(* and a finished task is dropped.                                         *)
(***************************************************************************)
NextTimed ==
  \/ Discard
  \/ /\ NoneDone
     /\ \/ ConnectionMade
        \/ DatagramReceived
        \/ GetLabel
        \/ SetPower
        \/ TaskStart
        \/ WakeUp
        \/ Timeout

SpecTimed ==
  /\ Init
  /\ [][NextTimed]_vars
  /\ WF_vars(Discard)
  /\ WF_vars(NoneDone /\ Timeout)

(***************************************************************************)
(* Acknowledgements that arrive for a request waiting for a state reply.   *)
(* host.acked keeps the seq_nums such an acknowledgement has come for.     *)
(***************************************************************************)
IntermediateAck(s) ==
  /\ s \in DOMAIN message
  /\ message[s].response_type # "Acknowledgement"
  /\ s \notin host.acked
  /\ transport = "open"
  /\ ~ReadyStep
  /\ LET response == Inbound("Acknowledgement", s, OwnSourceId, << >>)
         d == ObserveDatagram(Cur, datagram_received(Cur, response), response)
     IN Becomes([d EXCEPT !.host.acked = @ \cup {s}])

AckReceived == \E s \in DOMAIN message : IntermediateAck(s)

NextAck ==
  \/ Discard
  \/ /\ NoneDone
     /\ \/ ConnectionMade
        \/ Elapse
        \/ AckReceived
        \/ DatagramReceived
        \/ GetLabel
        \/ SetPower
        \/ TaskStart
        \/ WakeUp
        \/ Timeout

SpecAck == Init /\ [][NextAck]_vars

(***************************************************************************)
(* Datagrams whose message_type has no branch in unpack_lifx_message: they *)
(* are unpacked as a plain Message (unpack.py 609-617).                    *)
(***************************************************************************)
UnknownReceived ==
  \E s \in InboundSeqs, src \in {OwnSourceId, ForeignSourceId} :
    Received(Inbound("Message", s, src, << >>))

NextUnknown ==
  \/ Discard
  \/ /\ NoneDone
     /\ \/ ConnectionMade
        \/ SetDefaultCallb
        \/ UnknownReceived
        \/ GetLabel
        \/ SetPower
        \/ TaskStart
        \/ WakeUp
        \/ Timeout

SpecUnknown == Init /\ [][NextUnknown]_vars

(***************************************************************************)
(* Requests issued with any max_attempts an int argument can carry, 0      *)
(* included: "while attempts < max_attempts" is then false at once.        *)
(***************************************************************************)
ReqAnyAttempts ==
  \E t \in TaskIds, n \in 0..MaxAttempts :
    /\ CanIssue(t, MaxIssued)
    /\ \/ Becomes(req_with_resp(Cur, t, "GetLabel", "StateLabel", << >>, UserCallb, Some(n)))
       \/ Becomes(req_with_ack(Cur, t, "LightSetPower",
                               <<MAX_UNSIGNED_16_BIT_INTEGER_VALUE, 0>>, UserCallb, Some(n)))

NextStale ==
  \/ Discard
  \/ /\ NoneDone
     /\ \/ ConnectionMade
        \/ ReqAnyAttempts
        \/ DatagramReceived
        \/ ErrorReceived
        \/ TaskStart
        \/ WakeUp
        \/ Timeout

SpecStale == Init /\ [][NextStale]_vars

(***************************************************************************)
(* fire_and_forget on the device, next to its requests.                    *)
(***************************************************************************)
\* fire_and_forget that takes a sequence number as the requests do
fire_and_forget_seq(d, kind, payload, num_repeats) ==
  LET d1 == seq_next(d)
  IN [d1 EXCEPT !.fire = [NoFire EXCEPT
                            !.pc = "created",
                            !.msg = NewMessage(kind, MacAddr, d1.source_id, d1.seq,
                                               payload, FALSE, FALSE),
                            !.num_repeats = num_repeats]]

\* Device.fire_and_forget(msg_type, payload, num_repeats=num_repeats)
fire_and_forget(d, kind, payload, num_repeats) ==
  [d EXCEPT !.fire = [NoFire EXCEPT
                        !.pc = "created",
                        !.msg = NewMessage(kind, MacAddr, d.source_id, 0, payload,
                                           FALSE, FALSE),
                        !.num_repeats = num_repeats]]

\* num_repeats as fire_sending resolves it against retry_count
FireRepeats(f) ==
  IF IsNone(f.num_repeats) THEN DEFAULT_ATTEMPTS ELSE The(f.num_repeats)

\* Device.fire_sending: the test of the while loop and, if it holds, one
\* iteration up to "await aio.sleep(sleep_interval)"
fire_sending(d) ==
  LET f == d.fire
  IN IF f.sent_msg_count < FireRepeats(f)
       THEN IF d.transport # "None"
              THEN LET m == packed_message(f.msg)
                   IN [d EXCEPT !.fire.msg = m,
                                !.fire.out = Append(@, The(m.packed)),
                                !.fire.sent_msg_count = @ + 1,
                                !.fire.pc = "sleeping"]
              ELSE [d EXCEPT !.fire.skipped = @ + 1,
                             !.fire.sent_msg_count = @ + 1,
                             !.fire.pc = "sleeping"]
       ELSE [d EXCEPT !.fire.pc = "done"]

\* the host fires a LightSetPower, before or after the socket is open
FireAndForget ==
  /\ fire.pc = "idle"
  /\ \E num_repeats \in {None} \cup {Some(n) : n \in 0..MaxRepeats} :
       Becomes(fire_and_forget(Cur, "LightSetPower",
                               <<MAX_UNSIGNED_16_BIT_INTEGER_VALUE, 0>>, num_repeats))

FireStep ==
  /\ fire.pc \in {"created", "sleeping"}
  /\ Becomes(fire_sending(Cur))

NextFire ==
  \/ ConnectionMade
  \/ Cleanup
  \/ GetLabel
  \/ TaskStart
  \/ FireAndForget
  \/ FireStep

SpecFire == Init /\ [][NextFire]_vars

(***************************************************************************)
(* The set operations: set_power on and off, set_label with a label and    *)
(* with the empty string, and everything that can end their requests.      *)
(***************************************************************************)
SetValue ==
  \E t \in TaskIds :
    /\ CanIssue(t, MaxIssued)
    /\ \/ \E value \in BOOLEAN : Becomes(set_power(Cur, t, value, TRUE))
       \/ \E value \in {Den, << >>} : Becomes(set_label(Cur, t, value, TRUE))

NextSet ==
  \/ Discard
  \/ /\ NoneDone
     /\ \/ ConnectionMade
        \/ Elapse
        \/ DatagramReceived
        \/ ErrorReceived
        \/ SetValue
        \/ TaskStart
        \/ WakeUp
        \/ Timeout

SpecSet == Init /\ [][NextSet]_vars

(***************************************************************************)
(* Requests with max_attempts >= 1 under any inbound traffic, with the     *)
(* event loop doing its part: a task that can run does run, a timeout that *)
(* is waited for expires, a finished task is dropped.                      *)
(***************************************************************************)
NextLive ==
  \/ Discard
  \/ /\ NoneDone
     /\ \/ ConnectionMade
        \/ DatagramReceived
        \/ ErrorReceived
        \/ ReqWithResp
        \/ ReqWithAck
        \/ TaskStart
        \/ WakeUp
        \/ Timeout

\* what the event loop does by itself
LoopStep == Discard \/ (NoneDone /\ (TaskStart \/ WakeUp \/ Timeout))

SpecLive ==
  /\ Init
  /\ [][NextLive]_vars
  /\ WF_vars(LoopStep)

(***************************************************************************)
(* Device.cleanup while requests and a fire-and-forget are in flight: the  *)
(* transport is closed and unset, the retry tasks are left to themselves,  *)
(* and the closed socket delivers nothing more.                            *)
(***************************************************************************)
DeviceCleanup ==
  /\ transport = "open"
  /\ Becomes([Cur EXCEPT !.transport = "None", !.host.cleaned = TRUE])

NextCleanup ==
  \/ Discard
  \/ /\ NoneDone
     /\ \/ ~host.cleaned /\ ConnectionMade
        \/ DeviceCleanup
        \/ Elapse
        \/ DatagramReceived
        \/ issued = 0 /\ GetLabel
        \/ issued = 0 /\ SetPower
        \/ TaskStart
        \/ WakeUp
        \/ Timeout
        \/ FireAndForget
        \/ FireStep

SpecCleanup ==
  /\ Init
  /\ [][NextCleanup]_vars
  /\ WF_vars(Discard)
  /\ WF_vars(NoneDone /\ Timeout)

(***************************************************************************)
(* LifxScan.scan: one LifxDiscovery and one ScanManager per local IPv4     *)
(* address, one manager.lifx_ip() task per manager, and aio.wait on the    *)
(* tasks with a timeout.  A controller is seen through what scan does to   *)
(* it (start, cleanup) and what it does to its manager (register).  The    *)
(* loop runs its callbacks first in first out: the wake-up of a task by    *)
(* Event.set(), the done callback of a finished task, the wake-up of scan  *)
(* by aio.wait's waiter.                                                   *)
(***************************************************************************)
\* the orders in which the set S can be listed
ScanOrders(S) ==
  {q \in [1..Cardinality(S) -> S] : \A i, j \in 1..Cardinality(S) : q[i] = q[j] => i = j}

\* LifxScan.scan up to "await aio.wait(tasks, timeout=timeout)", and the first
\* step of each task it created
scan_start(d, ips) ==
  IF ips = {}
    THEN [d EXCEPT !.scan.pc = "returned", !.scan.result = Some(<< >>)]
    ELSE [d EXCEPT !.scan.ips = ips,
                   !.scan.controller = [i \in ScanPool |-> IF i \in ips THEN "started" ELSE @[i]],
                   !.scan.mtask = [i \in ScanPool |-> IF i \in ips THEN "waiting" ELSE @[i]],
                   !.scan.counter = Cardinality(ips),
                   !.scan.timer = "armed",
                   !.scan.pc = "waiting"]

\* ScanManager.register: Event.set() wakes the task waiting in lifx_ip
ScanManager_register(d, ip) ==
  LET d1 == [d EXCEPT !.scan.regs[ip] =
                        IF @ # "none" THEN @
                        ELSE IF d.scan.timer = "fired" THEN "late" ELSE "intime"]
  IN IF d1.scan.event[ip]
       THEN d1
       ELSE LET d2 == [d1 EXCEPT !.scan.event[ip] = TRUE]
            IN IF d2.scan.mtask[ip] = "waiting"
                 THEN [d2 EXCEPT !.scan.mtask[ip] = "ready",
                                 !.scan.ready = Append(@, [kind |-> "wake", ip |-> ip])]
                 ELSE d2

\* aio.wait: waiter.set_result, which queues the wake-up of scan
release_waiter(d) ==
  IF d.scan.pc = "waiting"
    THEN [d EXCEPT !.scan.pc = "resuming",
                   !.scan.ready = Append(@, [kind |-> "resume", ip |-> 0])]
    ELSE d

\* the timeout of aio.wait elapses
scan_timeout(d) == release_waiter([d EXCEPT !.scan.timer = "fired"])

\* ScanManager.lifx_ip resumes after self._event.wait() and returns self.ip
lifx_ip_wakes(d, ip) ==
  IF d.scan.mtask[ip] = "ready"
    THEN [d EXCEPT !.scan.mtask[ip] = "done",
                   !.scan.ready = Append(@, [kind |-> "completion", ip |-> ip])]
    ELSE d

\* aio.wait: the done callback of a task
on_completion(d) ==
  LET d1 == [d EXCEPT !.scan.counter = @ - 1]
  IN IF d1.scan.counter <= 0
       THEN release_waiter([d1 EXCEPT !.scan.timer =
                                        IF @ = "armed" THEN "cancelled" ELSE @])
       ELSE d1

\* the rest of scan with done = the tasks whose event is set
scan_resume_by_event(d, order) ==
  LET done == {i \in d.scan.ips : d.scan.event[i]}
  IN [d EXCEPT !.scan.timer = IF @ = "armed" THEN "cancelled" ELSE @,
               !.scan.controller = [i \in ScanPool |-> IF i \in d.scan.ips THEN "cleaned"
                                                                           ELSE @[i]],
               !.scan.mtask = [i \in ScanPool |->
                                 IF i \in d.scan.ips \ done THEN "cancelled" ELSE @[i]],
               !.scan.result = Some(IF order \in ScanOrders(done) THEN order
                                    ELSE CHOOSE q \in ScanOrders(done) : TRUE),
               !.scan.pc = "returned"]

\* LifxScan.scan after aio.wait returns (done, pending); order: the order in
\* which the set done is listed
scan_resume(d, order) ==
  LET done == {i \in d.scan.ips : d.scan.mtask[i] = "done"}
  IN [d EXCEPT !.scan.timer = IF @ = "armed" THEN "cancelled" ELSE @,
               !.scan.controller = [i \in ScanPool |-> IF i \in d.scan.ips THEN "cleaned"
                                                                           ELSE @[i]],
               !.scan.mtask = [i \in ScanPool |->
                                 IF i \in d.scan.ips \ done THEN "cancelled" ELSE @[i]],
               !.scan.result = Some(IF order \in ScanOrders(done) THEN order
                                    ELSE CHOOSE q \in ScanOrders(done) : TRUE),
               !.scan.pc = "returned"]

\* the loop runs the first callback of its queue
run_ready(d, order) ==
  LET h == Head(d.scan.ready)
      d1 == [d EXCEPT !.scan.ready = Tail(@)]
  IN CASE h.kind = "wake" -> lifx_ip_wakes(d1, h.ip)
       [] h.kind = "completion" -> on_completion(d1)
       [] OTHER -> scan_resume(d1, order)

ScanStart ==
  /\ scan.pc = "idle"
  /\ \E ips \in SUBSET ScanPool : Becomes(scan_start(Cur, ips))

\* a controller's endpoint has opened its socket: the manager is told
ManagerRegister ==
  \E ip \in scan.ips :
    /\ scan.controller[ip] = "started"
    /\ Becomes(ScanManager_register(Cur, ip))

ScanTimeout ==
  /\ scan.timer = "armed"
  /\ Becomes(scan_timeout(Cur))

RunReady ==
  /\ scan.ready # << >>
  /\ \E order \in UNION {ScanOrders(S) : S \in SUBSET scan.ips} :
       Becomes(run_ready(Cur, order))

NextScan ==
  \/ ScanStart
  \/ ManagerRegister
  \/ ScanTimeout
  \/ RunReady

SpecScan == Init /\ [][NextScan]_vars

(***************************************************************************)
(* The discovery ticks alone, over more than one discovery period, with a  *)
(* host that may set discovery_countdown to 0 to hasten the broadcast.     *)
(***************************************************************************)
\* the host sets discovery_countdown = 0
force_discovery(d) ==
  [d EXCEPT !.disc.discovery_countdown = 0, !.disc.forced = @ + 1]

Tick ==
  /\ disc.scheduled > 0
  /\ disc.ticks < MaxTicks
  /\ Becomes(discover(Cur))

HostForce ==
  /\ disc.forced < MaxForced
  /\ disc.discovery_countdown # 0
  /\ Becomes(force_discovery(Cur))

NextTick ==
  \/ DiscStart
  \/ DiscConnectionMade
  \/ Tick
  \/ HostForce
  \/ DiscCleanup

SpecTick == Init /\ [][NextTick]_vars

(***************************************************************************)
(* Properties.                                                             *)
(***************************************************************************)
\* the user callback of request t has been given a reply (not null)
Answered(t) == \E i \in 1..Len(task[t].ucalls) : task[t].ucalls[i].arg.kind # "None"

\* no reply carrying the seq_num of request t has reached its entry
Silent(t) == ~Answered(t) /\ task[t].dropped \notin {"foreign", "kind"}

\* what C1 promises of request t: one datagram per attempt while it runs, and at
\* its end N datagrams, one null callback made while the entry was still there
\* and before unregister was called, one call of unregister, no entry left
ExhaustsCleanly(t) ==
  LET tk == task[t]
  IN /\ tk.pc = "waiting" =>
          /\ Len(tk.out) = tk.attempts
          /\ tk.attempts <= tk.max
          /\ tk.ucalls = << >>
          /\ tk.unreg = 0
          /\ tk.msg.seq_num \in DOMAIN message
     /\ tk.pc = "done" =>
          /\ tk.how = "exhausted"
          /\ Len(tk.out) = tk.max
          /\ Len(tk.ucalls) = 1
          /\ tk.ucalls[1].arg = NoneReply
          /\ tk.ucalls[1].pending
          /\ tk.ucalls[1].unreg = 0
          /\ tk.unreg = 1
          /\ tk.msg.seq_num \notin DOMAIN message

SetPowerDatagram ==
  [size |-> HEADER_SIZE_BYTES + 6, tagged |-> 0, source_id |-> OwnSourceId,
   target_addr |-> MacAddr, ack_requested |-> 1, response_requested |-> 0,
   seq_num |-> 1, message_type |-> ID_LightSetPower,
   payload |-> <<MAX_UNSIGNED_16_BIT_INTEGER_VALUE, 0>>]

FirstSetPower(t) == task[t].cb.op = "set_power" /\ task[t].born = 1

AckOfFirst == Inbound("Acknowledgement", 1, OwnSourceId, << >>)

\* C2: set_power(True) as the first request of an endpoint creates one entry,
\* under seq_num 1, expecting Acknowledgement, and every datagram it emits is
\* LightSetPower with power_level 65535, ack_requested 1, response_requested 0,
\* seq_num 1; once the Acknowledgement with seq_num 1 and the endpoint's
\* source_id has been correlated the cached power_level is 65535, the user
\* callback has been called once, with that message, and the table holds no
\* entry (none but that of another request issued meanwhile).
C2_SetPowerAck ==
  \A t \in TaskIds : FirstSetPower(t) =>
    LET tk == task[t]
        others == {task[u].msg.seq_num : u \in {x \in TaskIds \ {t} : Pending(Cur, x)}}
    IN /\ tk.msg.seq_num = 1
       /\ \A i \in 1..Len(tk.out) : tk.out[i] = SetPowerDatagram
       /\ (Pending(Cur, t) /\ ~Answered(t) /\ tk.dropped = "none") =>
            /\ 1 \in DOMAIN message
            /\ message[1].response_type = "Acknowledgement"
            /\ (issued = 1 => DOMAIN message = {1})
       /\ Answered(t) =>
            /\ power_level = Some(MAX_UNSIGNED_16_BIT_INTEGER_VALUE)
            /\ Len(tk.ucalls) = 1
            /\ tk.ucalls[1].arg = AckOfFirst
            /\ tk.ucalls[1].power_level = Some(MAX_UNSIGNED_16_BIT_INTEGER_VALUE)
            /\ DOMAIN message \subseteq others
            /\ (issued = 1 => message = EmptyDict)

C2_Witness ==
  \E t \in TaskIds :
    /\ FirstSetPower(t) /\ issued = 1
    /\ Answered(t) /\ task[t].ucalls[1].arg = AckOfFirst
    /\ task[t].out = <<SetPowerDatagram>>
    /\ power_level = Some(MAX_UNSIGNED_16_BIT_INTEGER_VALUE)
    /\ message = EmptyDict

\* request t expects a StateLabel, got the matching reply during its current
\* attempt and that attempt did not time out
Recovered(t) ==
  /\ task[t].msg.kind = "GetLabel"
  /\ Answered(t)
  /\ \/ task[t].pc = "waiting" /\ task[t].signaled
     \/ task[t].pc = "done" /\ task[t].how = "break"

C4_CorrelationOrder ==
  \A t \in TaskIds :
    /\ \A i \in 1..Len(task[t].ucalls) :
         LET c == task[t].ucalls[i]
         IN c.arg.kind # "None" =>
              /\ c.arg.kind = "StateLabel" => c.label = Some(StripNul(c.arg.payload))
              /\ ~c.waiter_set
              /\ c.pending
    /\ (Answered(t) /\ ~IsNone(task[t].woke)) =>
         /\ ~The(task[t].woke).pending
         /\ task[t].ucalls[1].arg.kind = "StateLabel" =>
              The(task[t].woke).label = Some(StripNul(task[t].ucalls[1].arg.payload))
    /\ (Answered(t) /\ task[t].pc = "waiting" /\ task[t].signaled) =>
         task[t].msg.seq_num \notin DOMAIN message

C4_Witness ==
  \E t \in TaskIds :
    /\ task[t].cb.op = "user"
    /\ Answered(t)
    /\ task[t].ucalls[1].arg.kind = "StateLabel"
    /\ ~IsNone(task[t].woke)
    /\ The(task[t].woke).label = Some(Den)
    /\ ~task[t].ucalls[1].waiter_set


\* the final attempt of request t times out in this step
FinalTimeout(t) ==
  /\ task[t].pc = "waiting"
  /\ task[t].attempts >= task[t].max
  /\ TimedOut(t)

\* C5: connection_made and every inbound datagram leave the endpoint
\* registered, and nothing else sets the flag; the flag goes from true to false
\* only in a step in which the final attempt of a request times out while the
\* last inbound message is older than unregister_timeout; a final timeout on an
\* endpoint that received a datagram recently leaves it registered.
C5_Registration ==
  [][/\ ~registered' => (~ConnectionMade /\ ~DatagramReceived)
     /\ (~registered /\ registered') => (ConnectionMade \/ DatagramReceived)
     /\ (registered /\ ~registered') =>
          (lastmsg = "old" /\ \E t \in TaskIds : FinalTimeout(t))
     /\ (registered /\ lastmsg = "fresh" /\ ~registered') =>
          \A t \in TaskIds : ~FinalTimeout(t)
    ]_vars

C5_Witness ==
  /\ ~registered
  /\ parent_last = "unregister"
  /\ lastmsg = "old"
  /\ \E t \in TaskIds : task[t].pc = "done" /\ task[t].how = "exhausted"

\* ucalls2 is ucalls1 followed by one call with a null reply
OneNullCallMore(ucalls1, ucalls2) ==
  /\ Len(ucalls2) = Len(ucalls1) + 1
  /\ SubSeq(ucalls2, 1, Len(ucalls1)) = ucalls1
  /\ ucalls2[Len(ucalls2)].arg = NoneReply

\* C6: a call of error_received calls the callback of every pending entry that
\* does not expect an Acknowledgement with null, if it has one, and signals its
\* waiter, if it has one; after the call the pending table is empty.
C6_ErrorFlush ==
  [][ErrorReceived =>
       /\ message' = EmptyDict
       /\ \A k \in DOMAIN message :
            message[k].response_type # "Acknowledgement" =>
              /\ message[k].callb # NoTask =>
                   OneNullCallMore(task[message[k].callb].ucalls,
                                   task'[message[k].callb].ucalls)
              /\ message[k].event # NoTask => task'[message[k].event].signaled
    ]_vars

C6_Witness ==
  \E t \in TaskIds :
    /\ task[t].msg.kind = "GetLabel"
    /\ task[t].dropped = "error"
    /\ task[t].pc = "waiting" /\ task[t].signaled
    /\ Len(task[t].ucalls) = 1 /\ task[t].ucalls[1].arg = NoneReply
    /\ message = EmptyDict
    /\ \E u \in TaskIds \ {t} : task[u].dropped = "error" /\ task[u].pc = "waiting"

\* a reply of the kind the entry under s expects, from a foreign source
ForeignReply(s, payload) ==
  Received(Inbound(message[s].response_type, s, ForeignSourceId, payload))

\* C7: a reply whose seq_num is in the pending table and whose kind is the
\* expected one, but whose source_id is not the endpoint's, removes the entry
\* and does nothing else: label and power_level keep their values, no user
\* callback is called, no waiter is signaled.
C7_ForeignSource ==
  [][\A s \in DOMAIN message :
       \A payload \in InboundPayloads(message[s].response_type) :
         ForeignReply(s, payload) =>
           /\ s \notin DOMAIN message'
           /\ label' = label
           /\ power_level' = power_level
           /\ \A t \in TaskIds : /\ task'[t].ucalls = task[t].ucalls
                                 /\ task'[t].signaled = task[t].signaled
                                 /\ task'[t].pc = task[t].pc
    ]_vars

C7_Witness ==
  \E t \in TaskIds :
    /\ task[t].dropped = "foreign"
    /\ task[t].msg.kind = "GetLabel"
    /\ task[t].pc = "waiting" /\ ~task[t].signaled
    /\ task[t].ucalls = << >>
    /\ task[t].msg.seq_num \notin DOMAIN message
    /\ label = None

\* C8 as stated: after a reply with the seq_num and kind of a request but a
\* foreign source_id, while attempts remain, the timeout of the current
\* attempt is followed by another send of the request datagram.
C8_RetryAfterForeign ==
  [][\A t \in TaskIds :
       (/\ task[t].dropped = "foreign"
        /\ task[t].pc = "waiting"
        /\ task[t].attempts < task[t].max
        /\ TimedOut(t))
       => Len(task'[t].out) = Len(task[t].out) + 1
    ]_vars

\* C9: all datagrams sent for one request are the same bytes, the packed form
\* of its message with its seq_num, one per attempt; the sequence counter
\* advances once per request issued and not on a retry; every pending entry is
\* the entry of exactly one running request, so retries add none.
C9_RetryIdentity ==
  /\ seq = issued % SEQ_MOD
  /\ \A t \in TaskIds :
       /\ \A i \in 1..Len(task[t].out) :
            /\ task[t].out[i] = task[t].out[1]
            /\ task[t].out[i] = generate_packed_message(task[t].msg)
            /\ task[t].out[i].seq_num = task[t].msg.seq_num
       /\ Len(task[t].out) = task[t].attempts
  /\ \A s \in DOMAIN message :
       Cardinality({t \in TaskIds : Pending(Cur, t) /\ task[t].msg.seq_num = s}) = 1
  /\ Cardinality(DOMAIN message)
       <= Cardinality({t \in TaskIds : Pending(Cur, t)})

C9_Witness ==
  \E t \in TaskIds :
    /\ Len(task[t].out) = DEFAULT_ATTEMPTS
    /\ \A i \in 1..DEFAULT_ATTEMPTS : task[t].out[i] = task[t].out[1]
    /\ task[t].born = 1 /\ issued = 2 /\ seq = 2
    /\ Cardinality(DOMAIN message) = 2

\* C10 as stated: with no more than 128 requests outstanding at a time, no two
\* outstanding requests hold the same seq_num.
C10_NoCollision ==
  \A t1, t2 \in TaskIds :
    (t1 # t2 /\ Pending(Cur, t1) /\ Pending(Cur, t2))
      => task[t1].msg.seq_num # task[t2].msg.seq_num


\* the reply the entry under s expects, from the endpoint's own source_id
MatchingReply(s, payload) ==
  Received(Inbound(message[s].response_type, s, OwnSourceId, payload))

\* C11: a matching reply completes the request of its seq_num only: that
\* request's callback is called with the reply, its waiter is signaled, its
\* entry is removed; every other entry and every other retry task is left as
\* it was, whichever of the requests was issued first.
C11_CorrelationBySeq ==
  [][\A s \in DOMAIN message :
       \A payload \in InboundPayloads(message[s].response_type) :
         MatchingReply(s, payload) =>
           /\ DOMAIN message' = (DOMAIN message) \ {s}
           /\ \A k \in (DOMAIN message) \ {s} : message'[k] = message[k]
           /\ \A t \in TaskIds :
                IF task[t].msg.kind # "None" /\ task[t].msg.seq_num = s
                  THEN /\ Len(task'[t].ucalls) = Len(task[t].ucalls) + 1
                       /\ task'[t].ucalls[Len(task'[t].ucalls)].arg.seq_num = s
                       /\ task'[t].signaled
                  ELSE task'[t] = task[t]
    ]_vars

\* the later request (b) is answered while the earlier one (a) still waits
C11_Witness ==
  \E a, b \in TaskIds :
    /\ task[a].born = 1 /\ task[b].born = 2
    /\ Answered(b) /\ task[b].pc = "waiting" /\ task[b].signaled
    /\ task[b].msg.seq_num \notin DOMAIN message
    /\ task[a].pc = "waiting" /\ ~task[a].signaled /\ task[a].ucalls = << >>
    /\ task[a].msg.seq_num \in DOMAIN message
    /\ message[task[a].msg.seq_num].event = a


\* all zones of the device, each with its colour
AllZones == [i \in 1..ZoneCount |-> Hsbk(i - 1)]

\* C12 as stated: after one get_color_zones(0, 15) and the two replies with
\* its seq_num, index 0 then index 8, color_zones has 16 entries, every zone
\* holding its colour and none null.
C12_ZonesFilled ==
  (/\ issued = 1
   /\ heard = <<[seq_num |-> 1, index |-> 0], [seq_num |-> 1, index |-> ZONES_PER_REPLY]>>)
  => color_zones = Some(AllZones)


\* number of times x occurs in the sequence q
Count(q, x) == Cardinality({i \in 1..Len(q) : q[i] = x})

\* the announcements that discover a device, and the port they advertise
Discovers(r) ==
  /\ r.target_addr # BROADCAST_MAC
  /\ \/ r.kind = "StateService" /\ r.service = SERVICE_UDP
     \/ r.kind = "LightState"
AdvertisedPort(r) == IF r.kind = "LightState" THEN UDP_BROADCAST_PORT ELSE r.port

\* the host has been told of each endpoint once per time it became registered
RegisteredOnce ==
  \A oid \in 1..Len(endpoints) :
    Count(hostcalls.register, oid) =
      Count(hostcalls.unregister, oid) + (IF endpoints[oid].registered THEN 1 ELSE 0)

\* one endpoint object per MAC, and the lights map points at it
OnePerMac ==
  /\ \A o1, o2 \in 1..Len(endpoints) :
       endpoints[o1].mac_addr = endpoints[o2].mac_addr => o1 = o2
  /\ \A mac \in DOMAIN lights : endpoints[lights[mac]].mac_addr = mac

LibraryAskedVersion(oid) ==
  \E i \in 1..Len(endpoints[oid].sent) :
    /\ endpoints[oid].sent[i].kind = "GetVersion"
    /\ endpoints[oid].sent[i].by = "library"

\* C14: an endpoint created for a discovered MAC is asked for its version by
\* the library itself: at the latest when the controller is cleaned up, every
\* endpoint whose socket was opened and registered has had a GetVersion
\* request issued on it that the host did not ask for.
C14_VersionRequested ==
  disc.cleaned =>
    \A oid \in 1..Len(endpoints) :
      Count(hostcalls.register, oid) > 0 => LibraryAskedVersion(oid)


\* the socket task of an endpoint is bound for the endpoint's ip and port
TaskBoundForEndpoint ==
  \A oid \in 1..Len(endpoints) :
    endpoints[oid].task = "pending" =>
      endpoints[oid].remote_addr =
        Some([ip |-> endpoints[oid].ip_addr, port |-> endpoints[oid].port])

\* C15: an announcement from a MAC that is in the lights map re-parameterizes
\* its endpoint if and only if the endpoint is not registered.  A registered
\* endpoint, the sockets and the map are left as they are.  An unregistered
\* one has its open socket closed, its ip and port overwritten with the
\* announced ones and a socket task started for the same object, which opens
\* a new socket to that address; the map, the number of endpoint objects, the
\* endpoint's source_id, sequence counter and pending table do not change.
C15_Rediscovery ==
  [][/\ \A r \in Announcements :
          (Discovers(r) /\ r.target_addr \in DOMAIN lights /\ DiscReceived(r)) =>
            LET oid == lights[r.target_addr]
                e == endpoints[oid]
            IN /\ lights' = lights
               /\ hostcalls' = hostcalls
               /\ Len(endpoints') = Len(endpoints)
               /\ \A o \in 1..Len(endpoints) : o # oid => endpoints'[o] = endpoints[o]
               /\ IF e.registered
                    THEN endpoints' = endpoints /\ sockets' = sockets
                    ELSE /\ endpoints'[oid] =
                              [e EXCEPT !.ip_addr = r.ip_addr,
                                        !.port = AdvertisedPort(r),
                                        !.transport = NoSocket,
                                        !.task = "pending",
                                        !.remote_addr =
                                          Some([ip |-> r.ip_addr,
                                                port |-> AdvertisedPort(r)]),
                                        !.cleaned = TRUE]
                         /\ Len(sockets') = Len(sockets)
                         /\ \A i \in 1..Len(sockets) :
                              sockets'[i] = IF i = e.transport
                                              THEN [sockets[i] EXCEPT !.closed = TRUE]
                                              ELSE sockets[i]
     /\ \A oid \in 1..Len(endpoints) :
          (endpoints[oid].task = "pending" /\ endpoints'[oid].task = "done"
             /\ endpoints'[oid].transport # NoSocket) =>
            /\ sockets' = Append(sockets, [remote_addr |->
                                             [ip |-> endpoints[oid].ip_addr,
                                              port |-> endpoints[oid].port],
                                           owner |-> oid, closed |-> FALSE])
            /\ endpoints'[oid].transport = Len(sockets')
     /\ TaskBoundForEndpoint'
    ]_vars

\* an endpoint that had issued a request and was unregistered by its
\* exhaustion has been rediscovered at another address: old socket closed,
\* new socket to the new address, same object, sequence counter kept
C15_Witness ==
  /\ Len(endpoints) = 1
  /\ lights = DictPut(EmptyDict, MacAddr, 1)
  /\ endpoints[1].seq = 1
  /\ endpoints[1].ip_addr = Ip2
  /\ endpoints[1].port = OtherPort
  /\ Len(sockets) = 2
  /\ sockets[1].closed
  /\ sockets[1].remote_addr = [ip |-> Ip1, port |-> UDP_BROADCAST_PORT]
  /\ ~sockets[2].closed
  /\ sockets[2].remote_addr = [ip |-> Ip2, port |-> OtherPort]
  /\ endpoints[1].transport = 2
  /\ hostcalls.unregister = <<1>>


C17_Period ==
  disc.forced = 0 =>
    \A i \in 1..(Len(disc.emitted) - 1) :
      disc.emitted[i + 1].tick - disc.emitted[i].tick =
        disc.discovery_interval \div disc.discovery_step


\* C18: LifxDiscovery.cleanup() leaves the broadcast transport unset, cancels
\* and unsets the discovery task if there is one, applies cleanup to every
\* endpoint that was in the lights map (socket closed and unset, socket task
\* cancelled) and empties the map; after it no GetService broadcast is
\* emitted, no tick is rescheduled, and no endpoint socket is opened.
C18_Cleanup ==
  [][/\ DiscCleanup =>
          /\ disc'.transport = "None"
          /\ disc'.task = "None"
          /\ disc'.cancels = disc.cancels + (IF disc.task # "None" THEN 1 ELSE 0)
          /\ disc'.emitted = disc.emitted
          /\ lights' = EmptyDict
          /\ Len(endpoints') = Len(endpoints)
          /\ \A mac \in DOMAIN lights :
               LET oid == lights[mac]
               IN /\ endpoints'[oid].cleaned
                  /\ endpoints'[oid].transport = NoSocket
                  /\ endpoints'[oid].task = "None"
                  /\ endpoints[oid].transport # NoSocket =>
                       sockets'[endpoints[oid].transport].closed
     /\ disc.cleaned =>
          /\ disc'.cleaned
          /\ disc'.transport = "None"
          /\ disc'.emitted = disc.emitted
          /\ disc'.scheduled <= disc.scheduled
          /\ lights' = EmptyDict
          /\ sockets' = sockets
    ]_vars

\* cleanup after the first broadcast and two discovered devices, one with its
\* socket open; the tick that was still scheduled has run and nothing is
\* scheduled any more
C18_Witness ==
  /\ disc.cleaned
  /\ disc.cancels = 1
  /\ disc.ticks = 2
  /\ disc.scheduled = 0
  /\ Len(disc.emitted) = 1
  /\ Len(endpoints) = 2
  /\ \A oid \in 1..2 : endpoints[oid].cleaned /\ endpoints[oid].transport = NoSocket
  /\ Len(sockets) = 1
  /\ sockets[1].closed
  /\ lights = EmptyDict


\* the elements of the sequence q
Range(q) == {q[i] : i \in 1..Len(q)}

\* C19: LifxScan.scan returns exactly the local ips whose manager received
\* its first register call before the timeout of the wait elapsed, each
\* once (the empty list when the host has no IPv4 address), and when it
\* returns every controller it started has been cleaned up.
C19_ScanResult ==
  scan.pc = "returned" =>
    /\ ~IsNone(scan.result)
    /\ Range(The(scan.result)) = {i \in scan.ips : scan.regs[i] = "intime"}
    /\ Len(The(scan.result)) = Cardinality(Range(The(scan.result)))
    /\ \A i \in ScanPool : scan.controller[i] \in {"None", "cleaned"}
    /\ \A i \in scan.ips : scan.controller[i] = "cleaned"

\* two addresses: on the first a device answered in time, on the second the
\* manager was only told after the timeout had elapsed; the first is returned
C19_Witness ==
  /\ scan.pc = "returned"
  /\ scan.ips = {1, 2}
  /\ scan.regs[1] = "intime"
  /\ scan.regs[2] = "late"
  /\ scan.result = Some(<<1>>)
  /\ scan.controller[1] = "cleaned"
  /\ scan.controller[2] = "cleaned"


\* what fire_sending has done so far agrees with the call: every datagram it
\* sent is the same one, for the device, with seq_num 0 and neither ack nor
\* response requested; every iteration either sent it or found no transport;
\* and the task ends after num_repeats (retry_count if None) iterations
FiredAsAsked ==
  /\ \A i \in 1..Len(fire.out) :
       /\ fire.out[i] = fire.out[1]
       /\ fire.out[i].seq_num = 0
       /\ fire.out[i].ack_requested = 0
       /\ fire.out[i].response_requested = 0
       /\ fire.out[i].source_id = source_id
       /\ fire.out[i].target_addr = MacAddr
       /\ fire.out[i].message_type = ID_LightSetPower
  /\ Len(fire.out) + fire.skipped = fire.sent_msg_count
  /\ fire.sent_msg_count <= FireRepeats(fire)
  /\ fire.pc = "done" => fire.sent_msg_count = FireRepeats(fire)
  /\ fire.pc = "idle" => fire.out = << >>

\* C20: fire_and_forget builds a datagram with seq_num 0, ack_requested 0 and
\* response_requested 0 and its task sends that same datagram once per
\* iteration in which the transport is open, N iterations in all (N =
\* num_repeats, retry_count if None): exactly N times when the transport is
\* open throughout.  Neither the call nor a step of its task changes the
\* sequence counter, the pending table, the registration, the request tasks
\* and their user callbacks, or anything else of the device.
C20_FireAndForget ==
  [][/\ FiredAsAsked'
     /\ fire' # fire =>
          /\ seq' = seq
          /\ message' = message
          /\ registered' = registered
          /\ parent_last' = parent_last
          /\ task' = task
          /\ issued' = issued
          /\ transport' = transport
          /\ sunk' = sunk
          /\ label' = label
          /\ power_level' = power_level
          /\ (transport = "open" /\ fire'.sent_msg_count > fire.sent_msg_count) =>
               Len(fire'.out) = Len(fire.out) + 1
    ]_vars

\* a request is pending under seq_num 1 while a fire_and_forget with the
\* default num_repeats has sent its datagram retry_count times and ended
C20_Witness ==
  /\ fire.pc = "done"
  /\ IsNone(fire.num_repeats)
  /\ Len(fire.out) = DEFAULT_ATTEMPTS
  /\ fire.skipped = 0
  /\ seq = 1
  /\ DOMAIN message = {1}
  /\ registered


\* nothing was sent, no sequence number taken, no pending entry added
NothingIssued ==
  /\ seq' = seq
  /\ message' = message
  /\ task' = task
  /\ issued' = issued

\* C21: once the cached vendor, host firmware version or wifi firmware
\* version is non-null, a call of get_version, get_hostfirmware or
\* get_wififirmware respectively sends no datagram, does not advance the
\* sequence counter and adds no pending entry; and no step (a reply, a
\* transport error, an exhausted request) sets a cached one back to null.
C21_FetchedOnce ==
  [][/\ ~IsNone(cache.vendor) => (~IsNone(cache'.vendor) /\ (GetVersion => NothingIssued))
     /\ ~IsNone(cache.host_firmware_version) =>
          (~IsNone(cache'.host_firmware_version) /\ (GetHostFirmware => NothingIssued))
     /\ ~IsNone(cache.wifi_firmware_version) =>
          (~IsNone(cache'.wifi_firmware_version) /\ (GetWifiFirmware => NothingIssued))
    ]_vars

\* the vendor is cached by the one request that was issued, and get_version
\* has been called again and answered from the cache
C21_Witness ==
  /\ cache.vendor = Some(1)
  /\ IsNone(cache.host_firmware_version)
  /\ IsNone(cache.wifi_firmware_version)
  /\ cache_hits = 1
  /\ issued = 1
  /\ seq = 1
  /\ message = EmptyDict


\* "major.minor" with major the high and minor the low 16 bits of v
MajorMinor(v) == Str(v \div 65536) \o <<".">> \o Str(v % 65536)

\* the reply of kind to the request pending under seq_num k, carrying version v
FirmwareReply(kind, k, v) ==
  /\ k \in DOMAIN message
  /\ message[k].response_type = kind
  /\ Received(Inbound(kind, k, OwnSourceId, FirmwarePayload(v)))

\* a StateHostFirmware reply caches the string "major.minor"
HostFirmwareDecoded ==
  [][\A k \in DOMAIN message, v \in FirmwareVersions :
       FirmwareReply("StateHostFirmware", k, v) =>
         cache'.host_firmware_version = Some(MajorMinor(v))]_vars

\* C28: for every 32-bit version value v received in StateHostFirmware or
\* StateWifiFirmware, the cached firmware version is the string
\* "major.minor" with major the high 16 bits and minor the low 16 bits of v.
C28_FirmwareVersion ==
  [][\A k \in DOMAIN message, v \in FirmwareVersions :
       /\ FirmwareReply("StateHostFirmware", k, v) =>
            cache'.host_firmware_version = Some(MajorMinor(v))
       /\ FirmwareReply("StateWifiFirmware", k, v) =>
            cache'.wifi_firmware_version = Some(MajorMinor(v))]_vars


\* the cached product is known and its catalogue row lacks multizone
NotMultizone ==
  /\ ~IsNone(cache.product)
  /\ ~products_dict[The(cache.product)].multizone

\* C22: a multi-zone operation (get_color_zones) called on an endpoint whose
\* product does not have the multizone capability sends no datagram, adds
\* no pending entry and does not advance the sequence counter.
C22_MismatchNoOp ==
  [][(NotMultizone /\ ReadZones) => NothingIssued]_vars


\* the group the claim names for a product: Switch for relays and buttons,
\* then the multi-zone, matrix and HEV groups for a product with that
\* feature, the colour group for a colour product without those, the plain
\* light otherwise
ClaimedGroups(product) ==
  IF product.relays /\ product.buttons THEN {"Switch"}
  ELSE IF product.multizone \/ product.matrix \/ product.hev
    THEN {g \in {"MultizoneLight", "MatrixLight", "HevLight"} :
            \/ g = "MultizoneLight" /\ product.multizone
            \/ g = "MatrixLight" /\ product.matrix
            \/ g = "HevLight" /\ product.hev}
  ELSE IF product.color THEN {"ColorLight"}
  ELSE {"Light"}

\* C23: for every combination of feature flags get_fixture returns Switch
\* for a product with relays and buttons, the multi-zone group for one with
\* multizone, the matrix group for one with matrix, the HEV group for one
\* with hev, the colour group for a colour product without those and the
\* plain light group otherwise.
C23_MatchingGroup ==
  ~IsNone(host.fixture) =>
    The(host.fixture).group \in ClaimedGroups(The(host.fixture).product)


\* C24: seq_next stores and returns (seq + 1) mod 128, so that the calls on
\* a fresh endpoint return 1, 2, ..., 127, 0, 1, ... in turn (after n
\* calls the counter is n mod 128); the counter and every key of the
\* pending table are in 0..127 and the table never holds more than 128
\* entries.
C24_SeqNext ==
  [][/\ seq' \in 0..127
     /\ seq' = issued' % 128
     /\ DOMAIN message' \subseteq 0..127
     /\ Cardinality(DOMAIN message') <= 128
     /\ (issued' = issued + 1 /\ ReqWrap) =>
          /\ seq' = (seq + 1) % 128
          /\ seq' \in DOMAIN message'
          /\ \E t \in TaskIds :
               /\ task'[t] # task[t]
               /\ task'[t].msg.seq_num = seq'
    ]_vars

\* the 129th call on the endpoint has returned 1 again
C24_Witness ==
  /\ issued = 129
  /\ seq = 1
  /\ 1 \in DOMAIN message


SameEnvelope(c) ==
  /\ c.unpacked.kind = c.kind
  /\ c.unpacked.target_addr = c.mac
  /\ c.unpacked.source_id = c.source_id
  /\ c.unpacked.seq_num = c.seq_num
  /\ c.unpacked.ack_requested = (IF c.ack THEN 1 ELSE 0)
  /\ c.unpacked.response_requested = (IF c.resp THEN 1 ELSE 0)

\* the kinds with a decoding branch come back as built, apart from the
\* address of GetService and the padding of a label
DecodedAsBuilt ==
  ~IsNone(host.codec) =>
    LET c == The(host.codec)
    IN c.kind \in UnpackedKinds =>
         /\ c.kind # "GetService" => SameEnvelope(c)
         /\ c.kind # "StateLabel" => c.unpacked.payload = c.payload
         /\ c.kind = "StateLabel" =>
              c.unpacked.payload = Pad(c.payload, LABEL_FIELD_LEN)

\* C26: for every encodable kind K and every payload within its fields'
\* ranges, unpack_lifx_message of the packed bytes of
\* K(mac, source_id, seq_num, payload, ack, resp) is a message of kind K with
\* the same target address, source_id, seq_num, payload fields and
\* ack_requested / response_requested flags.
C26_RoundTrip ==
  ~IsNone(host.codec) =>
    /\ SameEnvelope(The(host.codec))
    /\ The(host.codec).unpacked.payload = The(host.codec).payload


\* k is the kelvin of byte value b under the decreasing linear map of
\* [10495, 56575] onto [9000, 1500], clamped outside and taken to the
\* nearest integer inside
LinearClamped(b, k) ==
  /\ k \in 1500..9000
  /\ b <= 10495 => k = 9000
  /\ b >= 56575 => k = 1500
  /\ (b > 10495 /\ b < 56575) =>
       LET exact == 9000 * 46080 - (b - 10495) * 7500     \* times 46080
           diff == k * 46080 - exact
       IN 2 * diff <= 46080 /\ 2 * diff >= -46080

\* the mapping as the claim states it, apart from the value at 33535
KelvinMapping(c) ==
  /\ LinearClamped(c.low, c.low_kelvin)
  /\ LinearClamped(c.high, c.high_kelvin)
  /\ c.low_kelvin >= c.high_kelvin
  /\ c.low = 10495 => c.low_kelvin = 9000
  /\ c.low = 56575 => c.low_kelvin = 1500
  /\ c.low = 60000 => c.low_kelvin = 1500

\* C27 as stated: the switch backlight kelvin is the monotonically decreasing
\* linear map of [10495, 56575] onto [9000, 1500] with clamping, with
\* 10495 -> 9000, 33535 -> 4250, 56575 -> 1500 and 60000 -> 1500.
C27_AsStated ==
  ~IsNone(host.kelvin) =>
    /\ KelvinMapping(The(host.kelvin))
    /\ The(host.kelvin).low = 33535 => The(host.kelvin).low_kelvin = 4250

\* C27, amended: the same mapping, with 33535 -> 5250, the midpoint of
\* [1500, 9000].
C27_Kelvin ==
  ~IsNone(host.kelvin) =>
    /\ KelvinMapping(The(host.kelvin))
    /\ The(host.kelvin).low = 33535 => The(host.kelvin).low_kelvin = 5250

\* the midpoint and a clamped value have been converted
C27_Witness ==
  /\ ~IsNone(host.kelvin)
  /\ The(host.kelvin).low = 33535
  /\ The(host.kelvin).low_kelvin = 5250
  /\ The(host.kelvin).high = 60000
  /\ The(host.kelvin).high_kelvin = 1500


\* C29: the user callback of a request-with-ack or request-with-response
\* is invoked at most once, whatever replies (matching, repeated, of
\* another kind or source), attempt timeouts and transport errors occur:
\* never with a reply and with null, never twice with null.
C29_AtMostOnce ==
  \A t \in TaskIds : Len(task[t].ucalls) <= 1

\* a transport error gave the callback null, then the last attempt's timeout
\* ran and found nothing to call; a reply to an earlier request had come again
C29_Witness ==
  /\ host.duplicates = 1
  /\ \E t \in TaskIds :
       /\ task[t].pc = "done"
       /\ task[t].how = "exhausted"
       /\ task[t].dropped = "error"
       /\ Len(task[t].ucalls) = 1
       /\ task[t].ucalls[1].arg = NoneReply


\* a reply carrying the pending seq_num s whose kind is neither the one the
\* entry expects nor Acknowledgement
MismatchingReply(s) ==
  \E kind \in InboundKinds \ {message[s].response_type, "Acknowledgement"},
     src \in {OwnSourceId, ForeignSourceId} :
    \E payload \in InboundPayloads(kind) :
      Received(Inbound(kind, s, src, payload))

\* the request of task t lost its entry to a reply of another kind and still
\* waits for the timeout of its attempt
MismatchedWaiting(t) ==
  /\ task[t].dropped = "kind"
  /\ task[t].pc = "waiting"

\* C30: a reply whose seq_num is pending but whose kind is neither the
\* expected one nor Acknowledgement deletes the entry, updates no cached
\* attribute and calls no callback; the request's retry task then sends no
\* further datagram, calls nothing and ends at the timeout of its attempt,
\* which it does reach.
C30_KindMismatch ==
  /\ [][/\ \A s \in DOMAIN message :
             MismatchingReply(s) =>
               /\ s \notin DOMAIN message'
               /\ label' = label
               /\ power_level' = power_level
               /\ cache' = cache
               /\ \A t \in TaskIds : /\ task'[t].ucalls = task[t].ucalls
                                     /\ task'[t].signaled = task[t].signaled
                                     /\ task'[t].pc = task[t].pc
        /\ \A t \in TaskIds :
             MismatchedWaiting(t) =>
               /\ task'[t].out = task[t].out
               /\ task'[t].ucalls = task[t].ucalls
               /\ task'[t].pc \in {"waiting", "done"}
               /\ task'[t].pc = "done" => task'[t].how \in {"absent", "exhausted"}
       ]_vars
  /\ \A t \in TaskIds : MismatchedWaiting(t) ~> (task[t].pc = "done")

\* a GetLabel request answered by a LightStatePower: its task has ended at the
\* loop test after one datagram, with no callback and no label cached
C30_Witness ==
  \E t \in TaskIds :
    /\ task[t].dropped = "kind"
    /\ task[t].msg.kind = "GetLabel"
    /\ task[t].pc = "done"
    /\ task[t].how = "absent"
    /\ Len(task[t].out) = 1
    /\ task[t].ucalls = << >>
    /\ label = None


\* C31: an Acknowledgement whose seq_num is pending for a state reply is
\* ignored: the entry keeps its expected kind, waiter and callback, no waiter
\* is signaled, no callback is called, no cached value changes; and a
\* matching state reply that comes later still completes the request.
C31_IntermediateAck ==
  [][/\ \A s \in DOMAIN message :
          IntermediateAck(s) =>
            /\ message' = message
            /\ task' = task
            /\ label' = label
            /\ power_level' = power_level
            /\ cache' = cache
            /\ sunk' = sunk
     /\ \A s \in host.acked \cap DOMAIN message :
          \A payload \in InboundPayloads(message[s].response_type) :
            MatchingReply(s, payload) =>
              /\ s \notin DOMAIN message'
              /\ \A t \in TaskIds :
                   (task[t].msg.kind # "None" /\ task[t].msg.seq_num = s) =>
                     /\ Len(task'[t].ucalls) = Len(task[t].ucalls) + 1
                     /\ task'[t].ucalls[Len(task'[t].ucalls)].arg.kind
                          = message[s].response_type
                     /\ task'[t].signaled
    ]_vars

\* a get_label request was acknowledged, then answered: its callback got the
\* StateLabel once and the label is cached
C31_Witness ==
  \E t \in TaskIds :
    /\ task[t].msg.kind = "GetLabel"
    /\ task[t].msg.seq_num \in host.acked
    /\ Len(task[t].ucalls) = 1
    /\ task[t].ucalls[1].arg.kind = "StateLabel"
    /\ task[t].pc = "done"
    /\ task[t].how = "break"
    /\ ~IsNone(label)


\* C32: an inbound datagram whose message_type is outside the registry is
\* handed to the default callback when one is set and leaves the pending
\* table as it was, whatever its seq_num.
C32_UnknownToSink ==
  [][UnknownReceived =>
       /\ message' = message
       /\ default_callb => sunk' = Some("Message")]_vars

\* a datagram of unknown kind with a seq_num that is not pending does go to
\* the default callback and leaves the table alone
UnknownStrayToSink ==
  [][(Received(Inbound("Message", STRAY_SEQ, OwnSourceId, << >>)))
       => (message' = message /\ (default_callb => sunk' = Some("Message")))]_vars


\* C33: whenever no task step is due, every key of the pending table is
\* the seq_num of a request whose retry task has not finished; a finished
\* request has left no entry, whatever max_attempts it was issued with.
C33_NoStaleEntries ==
  (NoneDone /\ ~ReadyStep) =>
    \A k \in DOMAIN message :
      \E t \in TaskIds : Pending(Cur, t) /\ task[t].msg.seq_num = k


\* C34: a datagram on the discovery socket changes the lights map or an
\* endpoint only if its MAC is not the broadcast MAC and it is a StateService
\* with service 1 or a LightState; any other datagram leaves both as they were.
C34_Demultiplexing ==
  [][DemuxDatagram =>
       \/ Discovers(host'.demux[1])
       \/ lights' = lights /\ endpoints' = endpoints]_vars

\* C34 witness: a light is known, and the datagram delivered last, a
\* StateService of another service from an unknown MAC, created nothing.
C34_Witness ==
  /\ host.demux # None
  /\ host.demux[1].kind = "StateService"
  /\ host.demux[1].service = SERVICE_OTHER
  /\ host.demux[1].target_addr = MacAddr
  /\ MacAddr \notin DOMAIN lights
  /\ MacB \in DOMAIN lights
  /\ Len(endpoints) = 1


\* a request that waits, unsignaled, with its entry, after the cleanup
CleanedWaiting(t) ==
  /\ host.cleaned
  /\ task[t].pc = "waiting"
  /\ ~task[t].signaled
  /\ task[t].msg.seq_num \in DOMAIN message

\* the last attempt of t has timed out: null to its callback, entry gone,
\* unregister called
RanOut(t) ==
  /\ task[t].pc = "done"
  /\ task[t].how = "exhausted"
  /\ task[t].attempts = task[t].max
  /\ task[t].unreg = 1
  /\ task[t].msg.seq_num \notin DOMAIN message
  /\ task[t].ucalls # << >>
  /\ task[t].ucalls[Len(task[t].ucalls)].arg = NoneReply

\* C35: Device.cleanup wakes and cancels no request and touches no entry;
\* while the transport is unset no retry task and no fire-and-forget task
\* gives a datagram to the transport; and every request that waits at the
\* cleanup runs out its attempts, its callback then gets null, its entry is
\* removed and unregister is called.
C35_CleanupLeavesRequests ==
  /\ [][/\ (host'.cleaned /\ ~host.cleaned) =>
             /\ task' = task
             /\ message' = message
             /\ fire' = fire
        /\ transport = "None" =>
             /\ \A t \in TaskIds : Len(task'[t].out) <= Len(task[t].out)
             /\ fire'.out = fire.out
        /\ \A t \in TaskIds :
             CleanedWaiting(t) =>
               /\ task'[t].pc \in {"waiting", "done"}
               /\ task'[t].pc = "done" => RanOut(t)'
       ]_vars
  /\ \A t \in TaskIds : CleanedWaiting(t) ~> RanOut(t)

\* C35 witness: a get_label that was cleaned up after its first datagram has
\* run out both attempts with one datagram sent, got null, and the host was
\* told of the unregistration although the transport is unset.
C35_Witness ==
  \E t \in TaskIds :
    /\ host.cleaned
    /\ transport = "None"
    /\ RanOut(t)
    /\ task[t].msg.kind = "GetLabel"
    /\ task[t].max > 1
    /\ Len(task[t].out) = 1
    /\ ~registered
    /\ parent_last = "unregister"
    /\ fire.skipped > 0


\* q2 is q1 with at most one call appended
GrowsByOne(q1, q2) ==
  /\ Len(q2) \in {Len(q1), Len(q1) + 1}
  /\ SubSeq(q2, 1, Len(q1)) = q1

\* C36: the host is told of an endpoint by register and unregister in strict
\* alternation, register first: a step makes at most one call, a register
\* only when the calls so far are balanced, an unregister only when one
\* register is unanswered.
C36_Alternation ==
  [][/\ GrowsByOne(hostcalls.register, hostcalls'.register)
     /\ GrowsByOne(hostcalls.unregister, hostcalls'.unregister)
     /\ Len(hostcalls'.register) + Len(hostcalls'.unregister)
          <= Len(hostcalls.register) + Len(hostcalls.unregister) + 1
     /\ \A oid \in 1..Len(endpoints') :
          /\ Count(hostcalls'.register, oid) > Count(hostcalls.register, oid) =>
               Count(hostcalls.register, oid) = Count(hostcalls.unregister, oid)
          /\ Count(hostcalls'.unregister, oid) > Count(hostcalls.unregister, oid) =>
               Count(hostcalls.register, oid) = Count(hostcalls.unregister, oid) + 1
    ]_vars

\* C36 witness: endpoint 1 was registered at its connection, unregistered by
\* an exhausted request, and registered again by a datagram on its socket
\* that is still open.
C36_Witness ==
  /\ Count(hostcalls.register, 1) = 2
  /\ Count(hostcalls.unregister, 1) = 1
  /\ Len(endpoints) >= 1
  /\ endpoints[1].registered
  /\ ~endpoints[1].cleaned


\* the retry task of t has returned and the request has no entry
Ended(t) ==
  /\ task[t].pc = "done"
  /\ task[t].msg.seq_num \notin DOMAIN message

\* C37: a request issued with max_attempts >= 1 never has more datagrams
\* sent than max_attempts, a datagram that does not end it leaves its count
\* of attempts alone, its task returns only with its entry removed, and it
\* does return.
C37_Termination ==
  /\ [][\A t \in TaskIds :
          /\ task'[t].pc = "waiting" =>
               /\ task'[t].max >= 1
               /\ task'[t].attempts <= task'[t].max
               /\ Len(task'[t].out) <= task'[t].attempts
          /\ (/\ task[t].pc = "waiting"
              /\ \/ task'[t].attempts # task[t].attempts
                 \/ task'[t].out # task[t].out
                 \/ task'[t].pc # "waiting") =>
               (~DatagramReceived /\ ~ErrorReceived)
          /\ task'[t].pc = "done" =>
               /\ Ended(t)'
               /\ Len(task'[t].out) <= task'[t].max
     ]_vars
  /\ \A t \in TaskIds : Pending(Cur, t) ~> Ended(t)

\* C37 witness: a get_label issued with the largest max_attempts has sent
\* exactly that many datagrams, ran out and gave null to its callback.
C37_Witness ==
  \E t \in TaskIds :
    /\ Ended(t)
    /\ task[t].max_attempts = Some(MaxAttempts)
    /\ task[t].msg.kind = "GetLabel"
    /\ task[t].how = "exhausted"
    /\ Len(task[t].out) = MaxAttempts
    /\ task[t].ucalls # << >>


\* C38: whenever the loop can hand a datagram to datagram_received, every
\* pending entry has its waiter installed, so that a matching reply never
\* signals an unset waiter.
C38_WaiterInstalled ==
  /\ (transport = "open" /\ NoneDone /\ ~ReadyStep) =>
       \A k \in DOMAIN message : message[k].event # NoTask
  /\ raised # "AttributeError"


\* the cache holds what the set request of t asked for
Cached(t) ==
  IF task[t].msg.kind = "SetLabel"
    THEN label = Some(task[t].msg.payload)
    ELSE power_level = Some(task[t].msg.payload[1])

\* the Acknowledgement of the pending request of t is delivered
Acknowledged(t) ==
  /\ task[t].msg.seq_num \in DOMAIN message
  /\ Received(Inbound("Acknowledgement", task[t].msg.seq_num, OwnSourceId, << >>))

\* the last attempt of t times out while its entry is pending
RunsOut(t) ==
  /\ task[t].attempts >= task[t].max
  /\ task[t].msg.seq_num \in DOMAIN message
  /\ TimedOut(t)

\* a mismatching reply or a transport error drops the entry of t
Dropped(t) ==
  /\ task[t].msg.seq_num \in DOMAIN message
  /\ task[t].msg.seq_num \notin DOMAIN message'
  /\ task'[t].msg = task[t].msg
  /\ task'[t].dropped # "none"

SetEnds(t) ==
  /\ (Acknowledged(t) \/ RunsOut(t)) => Cached(t)'
  /\ Dropped(t) => (label' = label /\ power_level' = power_level)

\* C39: when the request of a non-rapid set_power or set_label ends by its
\* Acknowledgement or by the exhaustion of its attempts, the cache holds the
\* requested value after that step; a mismatching reply or a transport error
\* that drops the entry leaves the cache as it was.
C39_SetWritesCache ==
  [][\A t \in TaskIds :
       (task[t].pc = "waiting" /\ task[t].msg.kind \in {"LightSetPower", "SetLabel"}) =>
         SetEnds(t)]_vars

\* the same for every set request but a set_label of the empty string
SetWritesCacheNonEmpty ==
  [][\A t \in TaskIds :
       (/\ task[t].pc = "waiting"
        /\ task[t].msg.kind \in {"LightSetPower", "SetLabel"}
        /\ task[t].msg.payload # << >>) =>
         SetEnds(t)]_vars


\* the request-with-ack of t was pending when error_received ran, and its
\* task has not reached its timeout yet
AckDropped(t) ==
  /\ task[t].dropped = "error"
  /\ task[t].msg.ack_requested = 1
  /\ task[t].pc = "waiting"

\* C40: error_received removes the entry of a pending request-with-ack
\* without calling its callback or signaling its waiter; from then on the
\* callback is never called, the waiter never signaled and nothing is sent,
\* and the next timeout ends the task, with unregister called exactly when
\* that timeout was the one of the final attempt.
C40_AckDroppedSilently ==
  [][\A t \in TaskIds :
       /\ (/\ HoldsEntry(Cur, t)
           /\ task[t].msg.ack_requested = 1
           /\ task'[t].dropped = "error"
           /\ task[t].dropped # "error") =>
            /\ task[t].msg.seq_num \notin DOMAIN message'
            /\ task'[t].ucalls = task[t].ucalls
            /\ task'[t].signaled = task[t].signaled
            /\ task'[t].pc = task[t].pc
       /\ AckDropped(t) =>
            /\ task'[t].ucalls = << >>
            /\ ~task'[t].signaled
            /\ task'[t].out = task[t].out
            /\ task'[t].attempts = task[t].attempts
            /\ task'[t].pc \in {"waiting", "done"}
            /\ task'[t] # task[t] => task'[t].pc = "done"
            /\ task'[t].pc = "done" =>
                 IF task[t].attempts >= task[t].max
                   THEN task'[t].how = "exhausted" /\ task'[t].unreg = 1
                   ELSE task'[t].how = "absent" /\ task'[t].unreg = 0
    ]_vars

\* C40 witness: a set_power lost its entry to error_received during its last
\* attempt; its task ended at the timeout with three datagrams sent, no call
\* of the callback, and unregister called.
C40_Witness ==
  \E t \in TaskIds :
    /\ task[t].dropped = "error"
    /\ task[t].msg.ack_requested = 1
    /\ task[t].cb.op = "set_power"
    /\ task[t].pc = "done"
    /\ task[t].how = "exhausted"
    /\ task[t].unreg = 1
    /\ task[t].ucalls = << >>
    /\ Len(task[t].out) = DEFAULT_ATTEMPTS
    /\ power_level = None


====
